---- MODULE Spec2Model ----
(***************************************************************************)
(* Model of the code chunking engine of docling_core                       *)
(* (transforms/chunker/code_chunking): the range tracker, the chunk size   *)
(* processor, the per-language chunker and the chunking strategy facade.   *)
(***************************************************************************)
EXTENDS Integers, Sequences, FiniteSets, TLC

\* ------------------------------------------------------------------ bounds
MaxByte == 3        \* byte offsets of the range tracker model are 0..MaxByte
MaxRanges == 3      \* longest list of used ranges built by mark_used/extend

MaxLines == 4       \* most lines of a chunk text handed to the size processor
TokenLimit == 2     \* max_tokens ranges over 1..TokenLimit in the size processor model
MaxBodyLines == 6   \* most body lines of the function of the 12,000-token scenario
MaxItems == 3       \* most top-level statements of a source unit
MaxInvocations == 2 \* chunk_code_item calls that run in parallel on one strategy
MaxDefinitions == 3 \* most top-level statements of a unit of nested definitions
SmallMaxTokens == 3 \* the max_tokens of a strategy that is given a small one

VARIABLES
    used_ranges,    \* _RangeTracker.used_ranges: list of (start_byte, end_byte)
    call,           \* the method of the tracker that ran last, with its argument
    ret,            \* what that call returned (NoneValue for the mutators)
    tokenizer,      \* _ChunkSizeProcessor.tokenizer: the token weight of each character
    max_tokens,     \* _ChunkSizeProcessor.max_tokens
    min_chunk_size, \* _ChunkSizeProcessor.min_chunk_size
    chunk_prefix,   \* chunker.chunk_prefix, read by _get_chunk_prefix
    chunk_suffix,   \* chunker.chunk_suffix, read by _get_chunk_suffix
    all_chunks,     \* the list of (chunk, ranges) handed to process_chunks
    idx,            \* position of the loop of process_chunks in all_chunks
    yielded,        \* the (chunk, ranges) pairs process_chunks has yielded so far
    pc,             \* where the size processor stands
    chunks,         \* local `chunks` of _split_function_chunk: the piece texts
    signature_line, \* local `signature_line` of _split_function_chunk
    chunker_kwargs, \* StandardCodeChunkingStrategy.chunker_kwargs
    chunker_cache,  \* StandardCodeChunkingStrategy._chunker_cache
    code_language,  \* item.code_language of the running chunk_code_item
    code_text,      \* local `code_text` of chunk_code_item, `code` of chunk
    tree,           \* the tree parse_code returns for code_text, in document order
    import_nodes,   \* local `import_nodes` of chunk: name -> import node
    module_variables, \* local `module_variables` of chunk: name -> statement
    emitted,        \* the chunks chunk_code_item has yielded so far
    previous,       \* what the caller got from the call before: <<>> before
                    \* any call has returned, <<chunks>> after
    invocations,    \* the chunk_code_item calls running in parallel on the strategy,
                    \* each with its item's language and its locals
    created         \* per language, how many chunkers chunker_class(...) has constructed

rangeVars == <<used_ranges, call, ret>>

sizeVars == <<tokenizer, max_tokens, min_chunk_size, chunk_prefix, chunk_suffix,
              all_chunks, idx, yielded, pc, chunks, signature_line>>

itemVars == <<chunker_kwargs, chunker_cache, code_language, code_text, tree,
              import_nodes, module_variables, previous, invocations, created>>

vars == <<rangeVars, sizeVars, itemVars, emitted>>

NoneValue == <<"None">>

\* CodeLanguageLabel: a label with a chunker in _INNER_CHUNKERS_BY_LANG and
\* one without
Languages == {"Python", "Rust"}

\* no strategy and no item: the state of the variables of chunk_code_item
\* while the tracker or the size processor is driven on its own
StrategyIdle ==
    /\ chunker_kwargs = NoneValue
    /\ chunker_cache = [l \in Languages |-> <<>>]
    /\ code_language = NoneValue
    /\ code_text = <<>>
    /\ tree = <<>>
    /\ import_nodes = <<>>
    /\ module_variables = <<>>
    /\ emitted = <<>>
    /\ previous = <<>>
    /\ invocations = <<>>
    /\ created = <<>>

\* =========================================================================
\* _RangeTracker
\* =========================================================================

\* A byte range as Tuple[int, int]; extraction hands in start <= end.
ByteRange == {r \in (0..MaxByte) \X (0..MaxByte) : r[1] <= r[2]}

\* Python's tuple order, which sorted() applies to the (start, end) pairs.
TupleLess(a, b) == a[1] < b[1] \/ (a[1] = b[1] /\ a[2] < b[2])

RECURSIVE InsertSorted(_, _)
InsertSorted(s, r) ==
    IF s = <<>> THEN <<r>>
    ELSE IF TupleLess(r, Head(s)) THEN <<r>> \o s
    ELSE <<Head(s)>> \o InsertSorted(Tail(s), r)

\* sorted(self.used_ranges): stable ascending sort.
RECURSIVE sorted(_)
sorted(s) == IF s = <<>> THEN <<>> ELSE InsertSorted(sorted(SubSeq(s, 1, Len(s) - 1)), s[Len(s)])

\* A fault for StartsNewRange: the start is compared with the end of the
\* previous input range instead of the end of the last merged range.
StartsNewRangePrevInput(merged, sorted_ranges, i) ==
    merged = <<>> \/ sorted_ranges[i][1] > sorted_ranges[i - 1][2]

\* A fault for StartsNewRange: a range that starts exactly where the last
\* merged range ends is kept apart (>= for >).
StartsNewRangeApart(merged, sorted_ranges, i) ==
    merged = <<>> \/ sorted_ranges[i][1] >= merged[Len(merged)][2]

\* `not merged or start > merged[-1][1]`
StartsNewRange(merged, sorted_ranges, i) ==
    merged = <<>> \/ sorted_ranges[i][1] > merged[Len(merged)][2]

\* the end of the incoming range taken whatever the end of the last merged one
EndOfIncoming(a, b) == b

\* max(merged[-1][1], end)
Max(a, b) == IF a >= b THEN a ELSE b

\* The loop of merge_ranges from its i-th iteration on.
RECURSIVE MergeLoop(_, _, _)
MergeLoop(merged, sorted_ranges, i) ==
    IF i > Len(sorted_ranges) THEN merged
    ELSE IF StartsNewRange(merged, sorted_ranges, i)
         THEN MergeLoop(Append(merged, sorted_ranges[i]), sorted_ranges, i + 1)
         ELSE MergeLoop(
                [merged EXCEPT ![Len(merged)] =
                    <<merged[Len(merged)][1], Max(merged[Len(merged)][2], sorted_ranges[i][2])>>],
                sorted_ranges, i + 1)

\* _RangeTracker.merge_ranges on a tracker whose used_ranges is R.
merge_ranges(R) == IF R = <<>> THEN <<>> ELSE MergeLoop(<<>>, sorted(R), 1)

\* The loop of find_gaps: [gaps, last_end] after the ranges from i on.
RECURSIVE GapLoop(_, _, _, _)
GapLoop(gaps, last_end, merged, i) ==
    IF i > Len(merged) THEN [gaps |-> gaps, last_end |-> last_end]
    ELSE GapLoop(IF last_end < merged[i][1]
                    THEN Append(gaps, <<last_end, merged[i][1]>>)
                    ELSE gaps,
                 merged[i][2], merged, i + 1)

\* A fault for find_gaps: the gap after the last used range is forgotten.
find_gaps_no_tail(R, total_length) == GapLoop(<<>>, 0, merge_ranges(R), 1).gaps

\* _RangeTracker.find_gaps(total_length) on a tracker whose used_ranges is R.
find_gaps(R, total_length) ==
    LET looped == GapLoop(<<>>, 0, merge_ranges(R), 1)
    IN  IF looped.last_end < total_length
        THEN Append(looped.gaps, <<looped.last_end, total_length>>)
        ELSE looped.gaps

\* ---- the tracker's methods as actions

TrackerInit ==
    /\ used_ranges = <<>>
    /\ call = <<"__init__">>
    /\ ret = NoneValue

mark_used(start_byte, end_byte) ==
    /\ UNCHANGED <<sizeVars, itemVars, emitted>>
    /\ Len(used_ranges) < MaxRanges
    /\ used_ranges' = Append(used_ranges, <<start_byte, end_byte>>)
    /\ call' = <<"mark_used">>
    /\ ret' = NoneValue

MarkUsed == \E r \in ByteRange : mark_used(r[1], r[2])

MergeRanges ==
    /\ UNCHANGED <<sizeVars, itemVars, emitted>>
    /\ ret' = merge_ranges(used_ranges)
    /\ call' = <<"merge_ranges">>
    /\ UNCHANGED used_ranges

FindGaps ==
    \E total_length \in 0..MaxByte :
        /\ ret' = find_gaps(used_ranges, total_length)
        /\ call' = <<"find_gaps", total_length>>
        /\ UNCHANGED <<used_ranges, sizeVars, itemVars, emitted>>

get_used_ranges ==
    /\ UNCHANGED <<sizeVars, itemVars, emitted>>
    /\ ret' = used_ranges
    /\ call' = <<"get_used_ranges">>
    /\ UNCHANGED used_ranges

clear ==
    /\ UNCHANGED <<sizeVars, itemVars, emitted>>
    /\ used_ranges' = <<>>
    /\ call' = <<"clear">>
    /\ ret' = NoneValue

\* extend(ranges), the argument being the list the previous call returned.
extend ==
    /\ UNCHANGED <<sizeVars, itemVars, emitted>>
    /\ call[1] \in {"merge_ranges", "find_gaps", "get_used_ranges"}
    /\ Len(used_ranges) + Len(ret) <= MaxRanges
    /\ used_ranges' = used_ranges \o ret
    /\ call' = <<"extend", call[1]>>
    /\ ret' = NoneValue

RangeNext == MarkUsed \/ MergeRanges \/ FindGaps \/ get_used_ranges \/ clear \/ extend

\* =========================================================================
\* Text: a Python str as the sequence of its characters
\* =========================================================================

Alphabet == {"f", "a", "b", "i", "c", "_", "#", "=", "L", "l", "@", " ", "\t", "\n", "{", "}"}

\* the characters str.strip() removes
Whitespace == {" ", "\t", "\n"}

\* the characters of a str, as str.lstrip(chars)/rstrip(chars) read their argument
CharsOf(s) == {s[i] : i \in DOMAIN s}

\* s.lstrip(chars): drops leading characters while they are among chars
RECURSIVE lstrip(_, _)
lstrip(s, chars) ==
    IF s # <<>> /\ Head(s) \in chars THEN lstrip(Tail(s), chars) ELSE s

\* s.rstrip(chars): drops trailing characters while they are among chars
RECURSIVE rstrip(_, _)
rstrip(s, chars) ==
    IF s # <<>> /\ s[Len(s)] \in chars THEN rstrip(SubSeq(s, 1, Len(s) - 1), chars) ELSE s

\* s.strip()
strip(s) == lstrip(rstrip(s, Whitespace), Whitespace)

\* text.split("\n")
RECURSIVE split(_)
split(text) ==
    IF \E i \in DOMAIN text : text[i] = "\n"
    THEN LET i == CHOOSE k \in DOMAIN text :
                    text[k] = "\n" /\ \A j \in 1..(k - 1) : text[j] # "\n"
         IN  <<SubSeq(text, 1, i - 1)>> \o split(SubSeq(text, i + 1, Len(text)))
    ELSE <<text>>

\* sep.join(parts)
RECURSIVE join(_, _)
join(sep, parts) ==
    IF parts = <<>> THEN <<>>
    ELSE IF Len(parts) = 1 THEN parts[1]
    ELSE parts[1] \o sep \o join(sep, Tail(parts))

\* tokenizer.count_tokens(text): the caller's token counter, a deterministic
\* non-negative count; here the sum of the weights it gives the characters.
RECURSIVE count_tokens(_)
count_tokens(text) ==
    IF text = <<>> THEN 0 ELSE tokenizer[Head(text)] + count_tokens(Tail(text))

\* token counters: every character is a token / every non-blank character is
CharTokenizer == [c \in Alphabet |-> 1]
WordTokenizer == [c \in Alphabet |-> IF c \in Whitespace THEN 0 ELSE 1]

\* _new_hash: the SHA-1 digest of the text as an integer, injective on texts
new_hash(code) == <<"sha1", code>>

\* =========================================================================
\* CodeChunk / CodeDocMeta
\* =========================================================================

FUNCTION == "function"
METHOD == "method"
PREAMBLE == "preamble"
CLASS == "class"
CODE_BLOCK == "code_block"

\* f"{part_name}_part_{n}"; n = 0 stands for the unsuffixed name
PartName(name, n) == [name |-> name, part |-> n]

\* CodeChunk(text=..., meta=CodeDocMeta(...))
CodeChunk(text, part_name, docstring, sha256, start_line, end_line, end_line_signature, chunk_type) ==
    [text |-> text,
     meta |-> [doc_items |-> <<"item">>,
               origin |-> "origin",
               part_name |-> part_name,
               docstring |-> docstring,
               sha256 |-> sha256,
               start_line |-> start_line,
               end_line |-> end_line,
               end_line_signature |-> end_line_signature,
               chunk_type |-> chunk_type]]

\* =========================================================================
\* _ChunkSizeProcessor
\* =========================================================================

\* the pieces numbered from 2
SuffixPartNameFromTwo(part_name, n) == [part_name EXCEPT !.part = n + 1]

\* f"{original.meta.part_name}_part_{n}"
SuffixPartName(part_name, n) == [part_name EXCEPT !.part = n]

\* _create_split_chunk: the meta copied, part_name suffixed, text replaced
create_split_chunk(original_chunk, text, chunk_number) ==
    [text |-> text,
     meta |-> [original_chunk.meta EXCEPT
                 !.part_name = SuffixPartName(original_chunk.meta.part_name, chunk_number)]]

\* the first line with a non-blank character, 0 when there is none
SignatureIndex(lines) ==
    IF \E i \in DOMAIN lines : strip(lines[i]) # <<>>
    THEN CHOOSE i \in DOMAIN lines :
            strip(lines[i]) # <<>> /\ \A j \in 1..(i - 1) : strip(lines[j]) = <<>>
    ELSE 0

\* body_lines of _split_function_chunk: the lines after the signature line,
\* without a last line that holds only a closing brace
BodyLines(lines) ==
    LET body == SubSeq(lines, SignatureIndex(lines) + 1, Len(lines))
    IN  IF body # <<>> /\ strip(body[Len(body)]) = <<"}">>
        THEN SubSeq(body, 1, Len(body) - 1)
        ELSE body

\* _split_function_chunk gives the chunk back whole: no non-blank line, or
\* nothing after the signature line
SplitReturnsWhole(lines) ==
    SignatureIndex(lines) = 0 \/ SignatureIndex(lines) = Len(lines)

\* A fault for ClosesPiece: the piece is closed only once it has outgrown
\* max_tokens, the line to add is not counted.
ClosesPieceLate(current_chunk, current_size, line_tokens) ==
    current_size > max_tokens /\ Len(current_chunk) > 1

\* `current_size + line_tokens > self.max_tokens and len(current_chunk) > 1`
ClosesPiece(current_chunk, current_size, line_tokens) ==
    current_size + line_tokens > max_tokens /\ Len(current_chunk) > 1

\* The accumulation loop of _split_function_chunk from body line i on;
\* current_chunk is the list of strings of the open piece.
RECURSIVE AccumulateLoop(_, _, _, _, _, _)
AccumulateLoop(pieces, current_chunk, current_size, body_lines, i, sig) ==
    IF i > Len(body_lines)
    THEN Append(pieces, join(<<>>, current_chunk) \o chunk_suffix)
    ELSE LET line_tokens == count_tokens(body_lines[i])
         IN  IF ClosesPiece(current_chunk, current_size, line_tokens)
             THEN AccumulateLoop(Append(pieces, join(<<>>, current_chunk) \o chunk_suffix),
                                 <<sig \o chunk_prefix, body_lines[i]>>,
                                 line_tokens, body_lines, i + 1, sig)
             ELSE AccumulateLoop(pieces, Append(current_chunk, body_lines[i]),
                                 current_size + line_tokens, body_lines, i + 1, sig)

\* `chunks` after the accumulation loop and the closing of the last piece
Accumulate(text) ==
    LET lines == split(text)
        sig == lines[SignatureIndex(lines)]
    IN  AccumulateLoop(<<>>, <<sig \o chunk_prefix>>, 0, BodyLines(lines), 1, sig)

\* A fault for TailIsUndersized: the tail is merged also when it holds
\* exactly min_chunk_size tokens (<= for <).
TailIsUndersizedInclusive(last_chunk) == count_tokens(last_chunk) <= min_chunk_size

\* `last_chunk_tokens < self.min_chunk_size`
TailIsUndersized(last_chunk) == count_tokens(last_chunk) < min_chunk_size

\* the block `if len(chunks) > 1:` of _split_function_chunk
MergeTail(pieces, sig) ==
    IF Len(pieces) > 1
    THEN LET last_chunk == pieces[Len(pieces)]
             rest == SubSeq(pieces, 1, Len(pieces) - 1)
         IN  IF TailIsUndersized(last_chunk)
             THEN [rest EXCEPT ![Len(rest)] =
                      rstrip(rest[Len(rest)], CharsOf(chunk_suffix))
                      \o <<"\n">>
                      \o lstrip(last_chunk, CharsOf(sig \o chunk_prefix))]
             ELSE Append(rest, last_chunk)
    ELSE pieces

\* the final loop of _split_function_chunk: one sub-chunk per non-blank text,
\* numbered by its position in `chunks`
RECURSIVE EmitLoop(_, _, _, _)
EmitLoop(chunk, ranges, pieces, i) ==
    IF i > Len(pieces) THEN <<>>
    ELSE (IF strip(pieces[i]) = <<>> THEN <<>>
          ELSE << <<[text |-> pieces[i],
                     meta |-> [chunk.meta EXCEPT !.part_name =
                                 IF Len(pieces) > 1
                                 THEN SuffixPartName(chunk.meta.part_name, i)
                                 ELSE chunk.meta.part_name]],
                    ranges>> >>)
         \o EmitLoop(chunk, ranges, pieces, i + 1)

\* a block is yielded whatever its size
KeepsBlockAlways(chunk_text) == TRUE

\* _split_generic_chunk: `if self.tokenizer.count_tokens(chunk_text) >= self.min_chunk_size`
KeepsBlock(chunk_text) == count_tokens(chunk_text) >= min_chunk_size

\* The loop of _split_generic_chunk from line i on, and the block after it.
RECURSIVE GenericLoop(_, _, _, _, _, _, _)
GenericLoop(out, current_chunk_lines, current_size, chunk_number, chunk, ranges, rest) ==
    IF rest = <<>>
    THEN IF current_chunk_lines # <<>>
            /\ KeepsBlock(join(<<"\n">>, current_chunk_lines))
         THEN Append(out, <<create_split_chunk(chunk, join(<<"\n">>, current_chunk_lines),
                                               chunk_number), ranges>>)
         ELSE out
    ELSE LET line == Head(rest)
             line_tokens == count_tokens(line)
         IN  IF current_size + line_tokens > max_tokens /\ current_chunk_lines # <<>>
             THEN LET chunk_text == join(<<"\n">>, current_chunk_lines)
                      emit == KeepsBlock(chunk_text)
                  IN  GenericLoop(
                        IF emit
                        THEN Append(out, <<create_split_chunk(chunk, chunk_text, chunk_number), ranges>>)
                        ELSE out,
                        <<line>>, line_tokens,
                        IF emit THEN chunk_number + 1 ELSE chunk_number,
                        chunk, ranges, Tail(rest))
             ELSE GenericLoop(out, Append(current_chunk_lines, line),
                              current_size + line_tokens, chunk_number,
                              chunk, ranges, Tail(rest))

\* _split_generic_chunk: everything it yields
split_generic_chunk(chunk, ranges) ==
    GenericLoop(<<>>, <<>>, 0, 1, chunk, ranges, split(chunk.text))

\* a chunk of exactly max_tokens tokens taken for oversized
IsOversizedInclusive(chunk) == count_tokens(chunk.text) >= max_tokens

\* the else branch of `if token_count <= self.max_tokens`
IsOversized(chunk) == count_tokens(chunk.text) > max_tokens

\* the branch of _split_large_chunk
IsFunctionKind(chunk) == chunk.meta.chunk_type \in {FUNCTION, METHOD}

\* ---- the size processor's steps

\* chunk: `for chunk, _ in size_processor.process_chunks(all_chunks): yield
\* chunk`, the chunks of the pairs process_chunks has yielded since `before`
YieldFrom(before, after) ==
    [i \in 1..(Len(after) - Len(before)) |-> after[Len(before) + i][1]]

\* the state of a size processor that is not running
SizeIdle ==
    /\ tokenizer = CharTokenizer
    /\ max_tokens = 0
    /\ min_chunk_size = 0
    /\ chunk_prefix = <<>>
    /\ chunk_suffix = <<>>
    /\ all_chunks = <<>>
    /\ idx = 0
    /\ yielded = <<>>
    /\ pc = "idle"
    /\ chunks = <<>>
    /\ signature_line = <<>>

\* One iteration of the loop of process_chunks, up to the end of the
\* accumulation loop when the chunk goes to _split_function_chunk.
ProcessChunk ==
    /\ pc = "process"
    /\ idx <= Len(all_chunks)
    /\ LET chunk == all_chunks[idx][1]
           ranges == all_chunks[idx][2]
           lines == split(chunk.text)
       IN  IF ~IsOversized(chunk)
           THEN /\ yielded' = Append(yielded, <<chunk, ranges>>)
                /\ idx' = idx + 1
                /\ UNCHANGED <<pc, chunks, signature_line>>
           ELSE IF ~IsFunctionKind(chunk)
           THEN /\ yielded' = yielded \o split_generic_chunk(chunk, ranges)
                /\ idx' = idx + 1
                /\ UNCHANGED <<pc, chunks, signature_line>>
           ELSE IF SplitReturnsWhole(lines)
           THEN /\ yielded' = Append(yielded, <<chunk, ranges>>)
                /\ idx' = idx + 1
                /\ UNCHANGED <<pc, chunks, signature_line>>
           ELSE /\ chunks' = Accumulate(chunk.text)
                /\ signature_line' = lines[SignatureIndex(lines)]
                /\ pc' = "tail"
                /\ UNCHANGED <<yielded, idx>>
    /\ emitted' = emitted \o YieldFrom(yielded, yielded')
    /\ UNCHANGED <<rangeVars, itemVars, tokenizer, max_tokens, min_chunk_size,
                   chunk_prefix, chunk_suffix, all_chunks>>

\* _split_function_chunk: the merge of an undersized last piece
MergeTailStep ==
    /\ pc = "tail"
    /\ chunks' = MergeTail(chunks, signature_line)
    /\ pc' = "emit"
    /\ UNCHANGED <<rangeVars, itemVars, emitted, tokenizer, max_tokens, min_chunk_size, chunk_prefix,
                   chunk_suffix, all_chunks, idx, yielded, signature_line>>

\* _split_function_chunk: the pieces are yielded; back in process_chunks
EmitPieces ==
    /\ pc = "emit"
    /\ yielded' = yielded \o EmitLoop(all_chunks[idx][1], all_chunks[idx][2], chunks, 1)
    /\ idx' = idx + 1
    /\ chunks' = <<>>
    /\ signature_line' = <<>>
    /\ pc' = "process"
    /\ emitted' = emitted \o YieldFrom(yielded, yielded')
    /\ UNCHANGED <<rangeVars, itemVars, tokenizer, max_tokens, min_chunk_size, chunk_prefix,
                   chunk_suffix, all_chunks>>

\* process_chunks has gone through the list
ProcessDone ==
    /\ pc = "process"
    /\ idx > Len(all_chunks)
    /\ pc' = "done"
    /\ UNCHANGED <<rangeVars, itemVars, emitted, tokenizer, max_tokens, min_chunk_size, chunk_prefix,
                   chunk_suffix, all_chunks, idx, yielded, chunks, signature_line>>

\* ---- the size processor on one chunk of any text

\* lines a chunk text is made of
LineKinds == {<<>>, <<"f">>, <<"a">>, <<"}">>, <<" ", "f", "a">>}

\* the texts of 1..n lines
RECURSIVE TextsOfLines(_)
TextsOfLines(n) ==
    IF n = 1 THEN LineKinds
    ELSE TextsOfLines(n - 1)
         \cup {t \o <<"\n">> \o l : t \in {u \in TextsOfLines(n - 1) : Len(split(u)) = n - 1},
                                    l \in LineKinds}

\* chunk_prefix and chunk_suffix of _PythonFunctionChunker and of the
\* TypeScript, JavaScript, C and Java chunkers
BlockTokens == {<< <<"\n", "\t">>, <<>> >>, << <<" ", "{">>, <<"\n", "}">> >>}

SizeInit ==
    /\ TrackerInit
    /\ StrategyIdle
    /\ tokenizer \in {CharTokenizer, WordTokenizer}
    /\ max_tokens \in 1..TokenLimit
    /\ min_chunk_size \in {0, TokenLimit + 1}
    /\ \E bt \in BlockTokens : chunk_prefix = bt[1] /\ chunk_suffix = bt[2]
    /\ \E text \in TextsOfLines(MaxLines), kind \in {FUNCTION, METHOD, CLASS, PREAMBLE, CODE_BLOCK} :
          all_chunks = << <<CodeChunk(text, PartName("f", 0), <<>>, new_hash(text),
                                      1, Len(split(text)), 1, kind), <<>> >> >>
    /\ idx = 1
    /\ yielded = <<>>
    /\ pc = "process"
    /\ chunks = <<>>
    /\ signature_line = <<>>

SizeNext == ProcessChunk \/ MergeTailStep \/ EmitPieces \/ ProcessDone

SpecSize == SizeInit /\ [][SizeNext]_vars

\* ---- the size processor on one function of 12,000 body tokens

\* max_tokens and min_chunk_size of the chunkers when the caller gives none
DefaultMaxTokens == 5000
DefaultMinChunkSize == 300

\* a token counter under which a line can weigh thousands of tokens
KiloTokenizer ==
    [c \in Alphabet |->
        CASE c = "a" -> 1000
          [] c = "b" -> 2600
          [] c = "c" -> 200
          [] c = "f" -> 1
          [] OTHER -> 0]

\* the sum of the token counts of the lines
RECURSIVE LineTokens(_, _)
LineTokens(weights, lines) ==
    IF lines = <<>> THEN 0
    ELSE LET RECURSIVE W(_)
             W(t) == IF t = <<>> THEN 0 ELSE weights[Head(t)] + W(Tail(t))
         IN  W(Head(lines)) + LineTokens(weights, Tail(lines))

\* body lines of 200 to 5000 tokens each
ScenarioLines ==
    {<<"c">>, <<"a">>, <<"a", "c", "c", "c">>, <<"a", "a">>, <<"b">>, <<"a", "a", "a">>,
     <<"a", "a", "a", "a">>, <<"a", "a", "a", "a", "a">>}

\* the bodies of at most n lines that count exactly `total` tokens
RECURSIVE BodiesOf(_, _)
BodiesOf(total, n) ==
    IF total = 0 THEN {<<>>}
    ELSE IF n = 0 THEN {}
    ELSE UNION {{<<l>> \o b : b \in BodiesOf(total - LineTokens(KiloTokenizer, <<l>>), n - 1)} :
                l \in {k \in ScenarioLines : LineTokens(KiloTokenizer, <<k>>) <= total}}

ScenarioInit ==
    /\ TrackerInit
    /\ StrategyIdle
    /\ tokenizer = KiloTokenizer
    /\ max_tokens = DefaultMaxTokens
    /\ min_chunk_size = DefaultMinChunkSize
    /\ \E bt \in BlockTokens : chunk_prefix = bt[1] /\ chunk_suffix = bt[2]
    /\ \E body \in BodiesOf(12 * 1000, MaxBodyLines) :
          LET text == join(<<"\n">>, << <<"f">> >> \o body)
          IN  all_chunks = << <<CodeChunk(text, PartName("f", 0), <<>>, new_hash(text),
                                          1, Len(body) + 1, 1, FUNCTION), <<>> >> >>
    /\ idx = 1
    /\ yielded = <<>>
    /\ pc = "process"
    /\ chunks = <<>>
    /\ signature_line = <<>>

SpecScenario == ScenarioInit /\ [][SizeNext]_vars

\* =========================================================================
\* Source units and their syntax trees (what parse_code returns)
\* =========================================================================

\* A statement of a source unit: kind, name, second operand, nested body.
Ast(k, name, val, body) == [k |-> k, name |-> name, val |-> val, body |-> body]

\* A node of the tree: type, byte range, start/end row, start column,
\* index of the parent node (0 for the root) and the field name under which
\* the parent holds it ("" when it is not a field of the parent).
Node(type, start_byte, end_byte, start_row, end_row, column, parent, field) ==
    [type |-> type, start_byte |-> start_byte, end_byte |-> end_byte,
     start_row |-> start_row, end_row |-> end_row, column |-> column,
     parent |-> parent, field |-> field]

Indent(n) == [i \in 1..n |-> " "]

\* The nodes (in document order, numbered from first_id) and the text of one
\* statement that starts at byte `off`, row `row`, column `col`; LayoutSeq
\* does the same for the statements of a block, one per line.
RECURSIVE Layout(_, _, _, _, _, _), LayoutSeq(_, _, _, _, _, _)
Layout(ast, col, off, row, parent, first_id) ==
    CASE ast.k = "import" ->
            [nodes |-> <<Node("import_statement", off, off + 2, row, row, col, parent, ""),
                         Node("dotted_name", off + 1, off + 2, row, row, col + 1, first_id, "name"),
                         Node("identifier", off + 1, off + 2, row, row, col + 1, first_id + 1, "")>>,
             text |-> <<"i", ast.name>>, rows |-> 0]
      [] ast.k = "stmt" ->
            [nodes |-> <<Node("expression_statement", off, off + 1, row, row, col, parent, ""),
                         Node("identifier", off, off + 1, row, row, col, first_id, "")>>,
             text |-> <<ast.name>>, rows |-> 0]
      [] ast.k = "assign" ->
            [nodes |-> <<Node("expression_statement", off, off + 3, row, row, col, parent, ""),
                         Node("assignment", off, off + 3, row, row, col, first_id, ""),
                         Node("identifier", off, off + 1, row, row, col, first_id + 1, "left"),
                         Node("identifier", off + 2, off + 3, row, row, col + 2, first_id + 1, "right")>>,
             text |-> <<ast.name, "=", ast.val>>, rows |-> 0]
      [] ast.k = "comment" ->
            [nodes |-> <<Node("comment", off, off + 2, row, row, col, parent, "")>>,
             text |-> <<"#", ast.name>>, rows |-> 0]
      [] ast.k \in {"def", "class"} ->
            LET body == LayoutSeq(ast.body, col + 1, off + 3 + col + 1, row + 1,
                                  first_id + 2, first_id + 3)
                text == <<(IF ast.k = "def" THEN "f" ELSE "c"), ast.name, "\n">>
                        \o Indent(col + 1) \o body.text
            IN  [nodes |-> <<Node((IF ast.k = "def" THEN "function_definition"
                                                     ELSE "class_definition"),
                                  off, off + Len(text), row, row + 1 + body.rows, col, parent, ""),
                             Node("identifier", off + 1, off + 2, row, row, col + 1, first_id, "name"),
                             Node("block", off + 3 + col + 1, off + Len(text), row + 1,
                                  row + 1 + body.rows, col + 1, first_id, "body")>>
                           \o body.nodes,
                 text |-> text, rows |-> 1 + body.rows]
      [] ast.k = "decorated" ->
            LET inner == Layout(ast.body[1], col, off + 3 + col, row + 1,
                                first_id, first_id + 3)
                text == <<"@", ast.name, "\n">> \o Indent(col) \o inner.text
            IN  [nodes |-> <<Node("decorated_definition", off, off + Len(text), row,
                                  row + 1 + inner.rows, col, parent, ""),
                             Node("decorator", off, off + 2, row, row, col, first_id, ""),
                             Node("identifier", off + 1, off + 2, row, row, col + 1,
                                  first_id + 1, "")>>
                           \o [inner.nodes EXCEPT ![1].field = "definition"],
                 text |-> text, rows |-> 1 + inner.rows]
LayoutSeq(asts, col, off, row, parent, first_id) ==
    LET first == Layout(Head(asts), col, off, row, parent, first_id)
    IN  IF Len(asts) = 1 THEN first
        ELSE LET rest == LayoutSeq(Tail(asts), col, off + Len(first.text) + 1 + col,
                                   row + first.rows + 1, parent, first_id + Len(first.nodes))
             IN  [nodes |-> first.nodes \o rest.nodes,
                  text |-> first.text \o <<"\n">> \o Indent(col) \o rest.text,
                  rows |-> first.rows + 1 + rest.rows]

\* parse_code: the text of a unit of top-level statements and its tree,
\* node 1 being the root
ParseUnit(asts, trailer) ==
    LET body == LayoutSeq(asts, 0, 0, 0, 1, 2)
        text == body.text \o trailer
    IN  [code |-> text,
         tree |-> <<Node("module", 0, Len(text), 0, body.rows + Len(trailer), 0, 0, "")>>
                  \o body.nodes]

\* the top-level statements source units are made of
TopLevel ==
    {Ast("import", "a", "", <<>>),
     Ast("stmt", "b", "", <<>>),
     Ast("assign", "b", "a", <<>>),
     Ast("comment", "L", "", <<>>),
     Ast("def", "b", "", <<Ast("stmt", "a", "", <<>>)>>),
     Ast("def", "a", "", <<Ast("stmt", "b", "", <<>>), Ast("stmt", "b", "", <<>>)>>),
     Ast("class", "b", "", <<Ast("stmt", "a", "", <<>>)>>),
     Ast("class", "a", "", <<Ast("stmt", "b", "", <<>>),
                             Ast("def", "b", "", <<Ast("stmt", "a", "", <<>>)>>)>>),
     Ast("class", "b", "", <<Ast("def", "_", "", <<Ast("stmt", "a", "", <<>>)>>)>>),
     Ast("decorated", "a", "", <<Ast("def", "b", "", <<Ast("stmt", "a", "", <<>>)>>)>>)}

\* the units of 1..n top-level statements
RECURSIVE UnitsOf(_)
UnitsOf(n) ==
    IF n = 0 THEN {}
    ELSE UnitsOf(n - 1)
         \cup {<<s>> : s \in TopLevel}
         \cup {u \o <<s>> : u \in {v \in UnitsOf(n - 1) : Len(v) = n - 1}, s \in TopLevel}

\* top-level statements with definitions inside definitions: an import, a
\* module variable defined with the imported name, a function that reads the
\* variable, a function with a function inside, a class with a constructor
\* and a decorated method, a class with a decorated method only, a class
\* with a constructor and a method
Definitions ==
    {Ast("import", "a", "", <<>>),
     Ast("assign", "b", "a", <<>>),
     Ast("def", "b", "", <<Ast("stmt", "b", "", <<>>)>>),
     Ast("def", "a", "", <<Ast("def", "b", "", <<Ast("stmt", "a", "", <<>>)>>)>>),
     Ast("class", "a", "",
         <<Ast("def", "_", "", <<Ast("stmt", "a", "", <<>>)>>),
           Ast("decorated", "a", "", <<Ast("def", "b", "", <<Ast("stmt", "a", "", <<>>)>>)>>)>>),
     Ast("class", "b", "",
         <<Ast("decorated", "a", "", <<Ast("def", "b", "", <<Ast("stmt", "a", "", <<>>)>>)>>)>>),
     Ast("class", "a", "",
         <<Ast("def", "_", "", <<Ast("stmt", "a", "", <<>>)>>),
           Ast("def", "b", "", <<Ast("stmt", "a", "", <<>>)>>)>>)}

\* the units of 1..n of these statements
RECURSIVE DefinitionUnitsOf(_)
DefinitionUnitsOf(n) ==
    IF n = 0 THEN {}
    ELSE DefinitionUnitsOf(n - 1)
         \cup {<<s>> : s \in Definitions}
         \cup {u \o <<s>> : u \in {v \in DefinitionUnitsOf(n - 1) : Len(v) = n - 1},
                             s \in Definitions}

\* =========================================================================
\* Tree access (tree_sitter.Node) and _utils
\* =========================================================================

\* the elements of a set of numbers in ascending order
RECURSIVE Ascending(_)
Ascending(S) ==
    IF S = {} THEN <<>>
    ELSE LET m == CHOOSE x \in S : \A y \in S : x <= y
         IN  <<m>> \o Ascending(S \ {m})

\* the same, last first
RECURSIVE Descending(_)
Descending(S) ==
    IF S = {} THEN <<>>
    ELSE LET m == CHOOSE x \in S : \A y \in S : x >= y
         IN  <<m>> \o Descending(S \ {m})

Reverse(s) == [i \in 1..Len(s) |-> s[Len(s) + 1 - i]]

\* node.children visited last child first
children_last_first(n) == Descending({m \in DOMAIN tree : tree[m].parent = n})

\* node.children
children(n) == Ascending({m \in DOMAIN tree : tree[m].parent = n})

\* node.text.decode()
NodeText(n) == SubSeq(code_text, tree[n].start_byte + 1, tree[n].end_byte)

\* node.child_by_field_name(field); 0 stands for None
child_by_field_name(n, field) ==
    LET found == SelectSeq(children(n), LAMBDA m : tree[m].field = field)
    IN  IF found = <<>> THEN 0 ELSE found[1]

\* node.prev_sibling; 0 stands for None
prev_sibling(n) ==
    LET before == {m \in DOMAIN tree : tree[m].parent = tree[n].parent /\ m < n}
    IN  IF tree[n].parent = 0 \/ before = {} THEN 0
        ELSE CHOOSE m \in before : \A k \in before : k <= m

\* whether node m is node n or lies below it
RECURSIVE IsWithin(_, _)
IsWithin(m, n) ==
    IF m = n THEN TRUE
    ELSE IF m = 0 THEN FALSE
    ELSE IsWithin(tree[m].parent, n)

\* the nodes a recursive walk from n visits
Subtree(n) == {m \in DOMAIN tree : IsWithin(m, n)}

\* _to_str
to_str(n) ==
    IF n = 0 \/ NodeText(n) = <<>> THEN <<>>
    ELSE rstrip(Indent(tree[n].column) \o NodeText(n), Whitespace)

\* _get_function_name, for the languages other than C
get_function_name(n) ==
    LET name_node == child_by_field_name(n, "name")
    IN  IF name_node # 0 /\ NodeText(name_node) # <<>> THEN NodeText(name_node)
        ELSE NoneValue

\* _is_collectable_function, for the languages other than C
is_collectable_function(n, constructor_name) ==
    LET name == get_function_name(n)
    IN  IF name = NoneValue THEN FALSE ELSE name # constructor_name

\* _get_children
get_children(n, child_types) ==
    SelectSeq(children(n), LAMBDA m : tree[m].type \in child_types)

\* ---- str operations of the extraction

\* ord(c)
CodePoint ==
    [c \in Alphabet |->
        CASE c = "\t" -> 9 [] c = "\n" -> 10 [] c = " " -> 32 [] c = "#" -> 35
          [] c = "=" -> 61 [] c = "L" -> 76 [] c = "_" -> 95 [] c = "a" -> 97
          [] c = "b" -> 98 [] c = "c" -> 99 [] c = "f" -> 102 [] c = "i" -> 105
          [] c = "l" -> 108 [] c = "{" -> 123 [] c = "}" -> 125]

\* a < b for str
RECURSIVE TextLess(_, _)
TextLess(a, b) ==
    IF b = <<>> THEN FALSE
    ELSE IF a = <<>> THEN TRUE
    ELSE IF Head(a) # Head(b) THEN CodePoint[Head(a)] < CodePoint[Head(b)]
    ELSE TextLess(Tail(a), Tail(b))

\* sorted(S) for a set of str
RECURSIVE SortedTexts(_)
SortedTexts(S) ==
    IF S = {} THEN <<>>
    ELSE LET m == CHOOSE x \in S : \A y \in S \ {x} : TextLess(x, y)
         IN  <<m>> \o SortedTexts(S \ {m})

\* sub in text
Contains(text, sub) ==
    \E i \in 0..(Len(text) - Len(sub)) : SubSeq(text, i + 1, i + Len(sub)) = sub

\* text.lower()
lower(text) == [i \in DOMAIN text |-> IF text[i] = "L" THEN "l" ELSE text[i]]

\* text.replace(sub, ""), for a non-empty sub
RECURSIVE remove(_, _)
remove(text, sub) ==
    IF Len(text) < Len(sub) THEN text
    ELSE IF SubSeq(text, 1, Len(sub)) = sub
    THEN remove(SubSeq(text, Len(sub) + 1, Len(text)), sub)
    ELSE <<Head(text)>> \o remove(Tail(text), sub)

\* the lines counted with the empty piece after a final line break
split_keeping_last(text) == split(text)

\* text.splitlines(), for the line break "\n"
splitlines(text) ==
    IF text = <<>> THEN <<>>
    ELSE IF text[Len(text)] = "\n" THEN split(SubSeq(text, 1, Len(text) - 1))
    ELSE split(text)

\* text.count("\n")
CountNewlines(text) == Cardinality({i \in DOMAIN text : text[i] = "\n"})

\* =========================================================================
\* _CodeChunker and _PythonFunctionChunker
\* =========================================================================

\* the default tokenizer of a chunker, _get_default_tokenizer()
DefaultTokenizer == WordTokenizer

\* The class attributes of _PythonFunctionChunker.  Identifiers are one
\* character long in the source units, so "_" stands for "__init__" and the
\* copyright word "l" for "license".
PythonFunctionChunker ==
    [language |-> "Python",
     function_definition_types |-> {"function_definition"},
     class_definition_types |-> {"class_definition"},
     constructor_name |-> <<"_">>,
     decorator_type |-> "decorated_definition",
     expression_types |-> {"expression_statement"},
     chunk_prefix |-> <<"\n", "\t">>,
     chunk_suffix |-> <<>>,
     function_body |-> "block",
     tokenizer |-> DefaultTokenizer,
     min_chunk_size |-> DefaultMinChunkSize,
     max_tokens |-> DefaultMaxTokens,
     docs_types |-> {"body", "comment"},
     dotted_name |-> "dotted_name",
     aliased_import |-> "aliased_import",
     class_body_field |-> "body",
     name_field |-> "name",
     expression_statement |-> "expression_statement",
     string_field |-> "string",
     identifiers |-> {"identifier", "type_identifier"},
     definition_field |-> "definition",
     copyright_words |-> {<<"l">>}]

\* The class attributes of _TypeScriptFunctionChunker the size processor and
\* the discovery of functions read.
TypeScriptFunctionChunker ==
    [language |-> "TypeScript",
     function_definition_types |-> {"function_declaration", "arrow_function",
                                    "method_definition", "function_expression",
                                    "generator_function", "generator_function_declaration",
                                    "export_statement"},
     class_definition_types |-> {"class_declaration"},
     constructor_name |-> <<"c", "o", "n", "s", "t", "r", "u", "c", "t", "o", "r">>,
     decorator_type |-> "decorator",
     function_body |-> "block",
     expression_types |-> {"expression_statement"},
     tokenizer |-> DefaultTokenizer,
     min_chunk_size |-> DefaultMinChunkSize,
     max_tokens |-> DefaultMaxTokens,
     chunk_prefix |-> <<" ", "{">>,
     chunk_suffix |-> <<"\n", "}">>,
     docs_types |-> {"comment"}]

\* _JavaScriptFunctionChunker(_TypeScriptFunctionChunker): the attributes are
\* inherited, the language label is the one __init__ passes on
JavaScriptFunctionChunker ==
    [TypeScriptFunctionChunker EXCEPT !.language = "JavaScript"]

\* The class attributes of _CFunctionChunker.
CFunctionChunker ==
    [language |-> "C",
     function_definition_types |-> {"function_definition"},
     class_definition_types |-> {""},
     constructor_name |-> <<>>,
     decorator_type |-> "",
     function_body |-> "compound_statement",
     expression_types |-> {},
     tokenizer |-> DefaultTokenizer,
     min_chunk_size |-> DefaultMinChunkSize,
     max_tokens |-> DefaultMaxTokens,
     chunk_prefix |-> <<" ", "{">>,
     chunk_suffix |-> <<"\n", "}">>,
     docs_types |-> {"comment", "block_comment"}]

\* The class attributes of _JavaFunctionChunker.
JavaFunctionChunker ==
    [language |-> "Java",
     function_definition_types |-> {"method_declaration", "constructor_declaration",
                                    "static_initializer"},
     class_definition_types |-> {"class_declaration", "interface_declaration"},
     constructor_name |-> <<"<", "i", "n", "i", "t", ">">>,
     decorator_type |-> "annotation",
     function_body |-> "block",
     expression_types |-> {},
     tokenizer |-> DefaultTokenizer,
     min_chunk_size |-> DefaultMinChunkSize,
     max_tokens |-> DefaultMaxTokens,
     chunk_prefix |-> <<" ", "{">>,
     chunk_suffix |-> <<"\n", "}">>,
     docs_types |-> {"block_comment", "comment"}]

\* _INNER_CHUNKERS_BY_LANG
INNER_CHUNKERS_BY_LANG ==
    [l \in {"Python", "TypeScript", "JavaScript", "C", "Java"} |->
        CASE l = "Python" -> PythonFunctionChunker
          [] l = "TypeScript" -> TypeScriptFunctionChunker
          [] l = "JavaScript" -> JavaScriptFunctionChunker
          [] l = "C" -> CFunctionChunker
          [] l = "Java" -> JavaFunctionChunker]

\* chunker_class(**self.chunker_kwargs).  The __init__ of the Python,
\* TypeScript, C and Java chunkers is `super().__init__(**data)`: the keyword
\* arguments given replace the defaults of the class.  The __init__ of
\* _JavaScriptFunctionChunker is `super().__init__(language=JAVASCRIPT)`: data
\* is not passed on and every attribute keeps the default of the class.
NewChunker(chunker_class, kwargs) ==
    IF chunker_class.language = "JavaScript"
    THEN chunker_class
    ELSE [chunker_class EXCEPT
            !.tokenizer = IF kwargs.tokenizer = <<>> THEN @ ELSE kwargs.tokenizer[1],
            !.max_tokens = IF kwargs.max_tokens = <<>> THEN @ ELSE kwargs.max_tokens[1],
            !.min_chunk_size = IF kwargs.min_chunk_size = <<>> THEN @
                               ELSE kwargs.min_chunk_size[1]]

\* the chunker whose chunk() is running
self == chunker_cache[code_language][1]

\* _CodeChunker._is_docstring
is_docstring(n) ==
    /\ tree[n].type = self.expression_statement
    /\ children(n) # <<>>
    /\ tree[children(n)[1]].type = self.string_field

\* _PythonFunctionChunker._get_docstring: no node of the Python grammar
\* holds its body under a field called "block"
get_docstring(n) ==
    LET body_node == child_by_field_name(n, self.function_body)
    IN  IF body_node = 0 \/ children(body_node) = <<>> THEN <<>>
        ELSE LET docs == SelectSeq(children(body_node), is_docstring)
             IN  IF docs # <<>> /\ children(docs[1]) # <<>>
                 THEN NodeText(children(docs[1])[1])
                 ELSE <<>>

\* _PythonFunctionChunker._get_imports: name -> import node, the later
\* import of a name replacing the earlier
get_imports ==
    LET nodes == {n \in DOMAIN tree : tree[n].type \in
                     {"import_statement", "import_from_statement", "future_import_statement"}}
        names(n) == {NodeText(m) : m \in {k \in DOMAIN tree :
                        tree[k].parent = n /\ tree[k].type = self.dotted_name}}
        all_names == UNION {names(n) : n \in nodes}
    IN  [name \in all_names |->
            CHOOSE n \in nodes : /\ name \in names(n)
                                 /\ \A m \in nodes : name \in names(m) => m <= n]

\* _PythonFunctionChunker._get_module_variables: name -> statement, the
\* later assignment of a name replacing the earlier
get_module_variables ==
    LET IsVariable(child) ==
            /\ tree[child].type \in self.expression_types
            /\ children(child) # <<>>
            /\ tree[children(child)[1]].type = "assignment"
            /\ children(children(child)[1]) # <<>>
            /\ tree[children(children(child)[1])[1]].type \in self.identifiers
        VarName(child) == NodeText(children(children(child)[1])[1])
        nodes == {n \in DOMAIN tree : tree[n].parent = 1 /\ IsVariable(n)}
    IN  [name \in {VarName(n) : n \in nodes} |->
            CHOOSE n \in nodes : /\ VarName(n) = name
                                 /\ \A m \in nodes : VarName(m) = name => m <= n]

\* _PythonFunctionChunker._is_local_assignment
is_local_assignment(identifier_node) ==
    \E current \in DOMAIN tree :
        /\ current # identifier_node
        /\ IsWithin(identifier_node, current)
        /\ tree[current].type = "assignment"
        /\ children(current) # <<>>
        /\ children(current)[1] = identifier_node

\* _PythonFunctionChunker._find_used_variables
find_used_variables(function_node) ==
    LET by_block == child_by_field_name(function_node, "block")
        by_body == IF by_block # 0 THEN by_block
                   ELSE child_by_field_name(function_node, "body")
        by_type == IF by_body # 0 THEN <<by_body>>
                   ELSE get_children(function_node, {"block", "suite", "compound_statement"})
        start == IF by_type # <<>> THEN by_type[1] ELSE function_node
    IN  {NodeText(m) : m \in {k \in Subtree(start) :
            tree[k].type \in self.identifiers /\ ~is_local_assignment(k)}}

\* _CodeChunker._is_constructor
is_constructor(n) ==
    /\ n # 0
    /\ child_by_field_name(n, self.name_field) # 0
    /\ NodeText(child_by_field_name(n, self.name_field)) # <<>>
    /\ tree[n].type \in self.function_definition_types
    /\ NodeText(child_by_field_name(n, self.name_field)) = self.constructor_name

\* the nearest class above a node, 0 when there is none
RECURSIVE ClassAbove(_)
ClassAbove(class_node) ==
    IF class_node = 0 \/ tree[class_node].type \in self.class_definition_types
    THEN class_node
    ELSE ClassAbove(tree[class_node].parent)

\* no constructor is ever the only function of its class
is_never_only_function_in_class(constructor_node) == FALSE

\* _CodeChunker._is_only_function_in_class
is_only_function_in_class(constructor_node) ==
    LET class_node == ClassAbove(tree[constructor_node].parent)
        body_node == child_by_field_name(class_node, self.class_body_field)
    IN  /\ class_node # 0
        /\ body_node # 0
        /\ \A child \in DOMAIN tree :
              tree[child].parent = body_node /\ child # constructor_node
              => tree[child].type \notin self.function_definition_types

\* a discovery that does not stop below a function: every function-type node
\* under the node that is collectable or a lone constructor, in document order
get_all_functions_at_any_depth(node, parent_type) ==
    IF node = 0 THEN <<>>
    ELSE SelectSeq(Ascending(Subtree(node)), LAMBDA n :
            /\ tree[n].type \in self.function_definition_types
            /\ \/ is_collectable_function(n, self.constructor_name)
               \/ is_constructor(n) /\ is_only_function_in_class(n))

\* _CodeChunker._get_all_functions
RECURSIVE get_all_functions(_, _), AllFunctionsOf(_, _)
get_all_functions(node, parent_type) ==
    IF node = 0 \/ parent_type \in self.function_definition_types THEN <<>>
    ELSE (IF /\ tree[node].type \in self.function_definition_types
             /\ \/ is_collectable_function(node, self.constructor_name)
                \/ is_constructor(node) /\ is_only_function_in_class(node)
          THEN <<node>> ELSE <<>>)
         \o AllFunctionsOf(children(node), tree[node].type)
AllFunctionsOf(kids, parent_type) ==
    IF kids = <<>> THEN <<>>
    ELSE get_all_functions(Head(kids), parent_type) \o AllFunctionsOf(Tail(kids), parent_type)

\* every class taken to have methods
has_methods_always(class_node) == TRUE

\* has_methods of _get_classes_no_methods
has_methods(class_node) ==
    \E child \in DOMAIN tree :
        /\ tree[child].parent = class_node
        /\ \/ tree[child].type \in self.function_definition_types
           \/ \E grandchild \in DOMAIN tree :
                 /\ tree[grandchild].parent = child
                 /\ tree[grandchild].type \in self.function_definition_types

\* _CodeChunker._get_classes_no_methods
RECURSIVE get_classes_no_methods(_, _), ClassesNoMethodsOf(_, _)
get_classes_no_methods(node, parent_type) ==
    IF node = 0 \/ parent_type \in self.class_definition_types THEN <<>>
    ELSE (IF tree[node].type \in self.class_definition_types /\ ~has_methods(node)
          THEN <<node>> ELSE <<>>)
         \o ClassesNoMethodsOf(children(node), tree[node].type)
ClassesNoMethodsOf(kids, parent_type) ==
    IF kids = <<>> THEN <<>>
    ELSE get_classes_no_methods(Head(kids), parent_type)
         \o ClassesNoMethodsOf(Tail(kids), parent_type)

\* the docs_types siblings right before a node, in document order: the loop
\* of _get_node_with_comments and of _get_node_ranges_with_comments
RECURSIVE DocsBefore(_, _)
DocsBefore(current, n) ==
    IF \/ current = 0
       \/ tree[current].type \notin self.docs_types
       \/ tree[current].end_row > tree[n].start_row
    THEN <<>>
    ELSE DocsBefore(prev_sibling(current), n) \o <<current>>

\* _CodeChunker._get_node_with_comments, _get_import_with_comments
get_node_with_comments(n) ==
    LET comment_parts == [i \in DOMAIN DocsBefore(prev_sibling(n), n) |->
                             to_str(DocsBefore(prev_sibling(n), n)[i])]
    IN  IF comment_parts # <<>>
        THEN join(<<>>, comment_parts) \o <<"\n">> \o to_str(n)
        ELSE to_str(n)

\* _CodeChunker._build_class_with_comments
build_class_with_comments(class_node) ==
    LET comment_parts == [i \in DOMAIN DocsBefore(prev_sibling(class_node), class_node) |->
                             to_str(DocsBefore(prev_sibling(class_node), class_node)[i])]
    IN  IF comment_parts # <<>>
        THEN join(<<>>, comment_parts) \o <<"\n">> \o to_str(class_node)
        ELSE to_str(class_node)

\* _CodeChunker._get_node_ranges_with_comments and the three methods that
\* return it: the comments nearest first, then the node
get_node_ranges_with_comments(n) ==
    LET docs == Reverse(DocsBefore(prev_sibling(n), n))
    IN  [i \in DOMAIN docs |-> <<tree[docs[i]].start_byte, tree[docs[i]].end_byte>>]
        \o << <<tree[n].start_byte, tree[n].end_byte>> >>

\* find_used_imports, the walk _build_imports and
\* _find_used_imports_in_function make of a node
find_used_imports(imports, n) ==
    {NodeText(m) : m \in {k \in Subtree(n) :
        tree[k].type \in self.identifiers /\ NodeText(k) \in DOMAIN imports}}

\* _CodeChunker._build_imports
build_imports(imports, function_node, additional_context) ==
    LET used == find_used_imports(imports, function_node)
                \cup (IF additional_context # <<>>
                      THEN {name \in DOMAIN imports : Contains(additional_context, name)}
                      ELSE {})
        set_imports == {get_node_with_comments(imports[name]) :
                           name \in {k \in DOMAIN imports : "*" \in CharsOf(k)} \cup used}
    IN  join(<<"\n">>, SortedTexts(set_imports)) \o <<"\n">>

\* _CodeChunker._find_used_imports_in_function; the empty dict stands for a
\* module_variables of None too
find_used_imports_in_function(imports, function_node, additional_context, variables) ==
    LET in_variables ==
            IF DOMAIN variables # {}
            THEN UNION {find_used_imports(imports, variables[v]) :
                           v \in find_used_variables(function_node) \cap DOMAIN variables}
            ELSE {}
    IN  find_used_imports(imports, function_node)
        \cup (IF additional_context # <<>>
              THEN {name \in DOMAIN imports : Contains(additional_context, name)}
              ELSE {})
        \cup in_variables
        \cup {k \in DOMAIN imports : "*" \in CharsOf(k)}

\* _CodeChunker._build_function
build_function(function_node) ==
    IF /\ tree[function_node].parent # 0
       /\ tree[tree[function_node].parent].type = self.decorator_type
    THEN to_str(tree[function_node].parent)
    ELSE to_str(function_node)

\* _CodeChunker._find_constructor; 0 stands for None
find_constructor(body) ==
    LET found == SelectSeq(children(body), LAMBDA child :
                    \/ is_constructor(child)
                    \/ /\ tree[child].type = self.decorator_type
                       /\ child_by_field_name(child, self.definition_field) # 0
                       /\ is_constructor(child_by_field_name(child, self.definition_field)))
    IN  IF found = <<>> THEN 0 ELSE found[1]

\* _CodeChunker._build_class_context: (with_doc, without_doc)
build_class_context(class_node) ==
    LET decorated == /\ tree[class_node].parent # 0
                     /\ tree[tree[class_node].parent].type = self.decorator_type
        start_byte == IF decorated THEN tree[tree[class_node].parent].start_byte
                      ELSE tree[class_node].start_byte
        class_indent == IF decorated THEN tree[tree[class_node].parent].column
                        ELSE tree[class_node].column
        body_node == child_by_field_name(class_node, self.class_body_field)
        header_text == rstrip(SubSeq(code_text, start_byte + 1, tree[body_node].start_byte),
                              Whitespace)
        header == Indent(class_indent) \o header_text \o <<"\n">>
        docstring == get_docstring(class_node)
        header_with_docstring ==
            IF docstring # <<>>
            THEN header \o Indent(class_indent + 4) \o docstring \o <<"\n">>
            ELSE header
        field_nodes == SelectSeq(children(body_node), LAMBDA child :
                          tree[child].type \in self.expression_types /\ ~is_docstring(child))
        fields_text == join(<<"\n">>, [i \in DOMAIN field_nodes |-> to_str(field_nodes[i])])
        constructor_node == find_constructor(body_node)
        constructor_text == IF constructor_node # 0 THEN build_function(constructor_node)
                            ELSE <<>>
        constructor_text_no_doc ==
            IF constructor_node # 0 /\ get_docstring(constructor_node) # <<>>
            THEN remove(constructor_text, get_docstring(constructor_node))
            ELSE constructor_text
    IN  IF body_node = 0 THEN << <<>>, <<>> >>
        ELSE <<strip(header_with_docstring \o <<"\n">> \o fields_text \o <<"\n">>
                     \o constructor_text),
               strip(header \o <<"\n">> \o fields_text \o <<"\n">>
                     \o constructor_text_no_doc)>>

\* _CodeChunker._build_additional_context: (context, context_no_docstring)
PrependContext(class_context, context) ==
    <<class_context[1] \o <<"\n">> \o context[1], class_context[2] \o <<"\n">> \o context[2]>>
RECURSIVE AdditionalContextLoop(_, _)
AdditionalContextLoop(node, context) ==
    IF tree[node].parent = 0 THEN context
    ELSE AdditionalContextLoop(tree[node].parent,
            IF tree[node].type \in self.class_definition_types
            THEN PrependContext(build_class_context(node), context)
            ELSE context)
build_additional_context(function_node) ==
    AdditionalContextLoop(function_node, << <<>>, <<>> >>)

\* _CodeChunker._file_prefix: (prefix, prefix_range)
file_prefix == << <<>>, <<>> >>

\* _CodeChunker._get_class_member_ranges
get_class_member_ranges(class_node) == <<>>

\* _CodeChunker._get_function_signature_end: the row of the point
get_function_signature_end(n) ==
    LET body == get_children(n, {self.function_body})
    IN  IF body # <<>> THEN tree[body[1]].start_row ELSE tree[n].end_row

\* the ranges of the imports a chunk inlines, in sorted(used_imports) order
RECURSIVE ImportRanges(_, _)
ImportRanges(imports, names) ==
    IF names = <<>> THEN <<>>
    ELSE get_node_ranges_with_comments(imports[Head(names)])
         \o ImportRanges(imports, Tail(names))

\* the loop of _yield_function_chunks_with_ranges over sorted(used_variables):
\* (ranges, module_variable_definitions)
RECURSIVE VariableLoop(_)
VariableLoop(names) ==
    IF names = <<>> THEN << <<>>, <<>> >>
    ELSE LET rest == VariableLoop(Tail(names))
         IN  IF Head(names) \in DOMAIN module_variables
             THEN <<get_node_ranges_with_comments(module_variables[Head(names)]) \o rest[1],
                    to_str(module_variables[Head(names)]) \o <<"\n">> \o rest[2]>>
             ELSE rest

\* _ChunkBuilder.build_function_chunk
build_function_chunk(content, function_name, docstring, start_line, end_line, signature_end_line) ==
    CodeChunk(content, PartName(function_name, 0), docstring, new_hash(content),
              start_line, end_line, signature_end_line, FUNCTION)

\* _ChunkBuilder.build_class_chunk
build_class_chunk(content, class_name, docstring, start_line, end_line) ==
    CodeChunk(content, PartName(class_name, 0), docstring, new_hash(content),
              start_line, end_line, end_line, CLASS)

\* the orphan text built as a chunk of kind CODE_BLOCK
build_code_block_chunk(content, start_line, end_line) ==
    CodeChunk(content, PartName(NoneValue, 0), NoneValue, new_hash(content),
              start_line, end_line, NoneValue, CODE_BLOCK)

\* _ChunkBuilder.build_preamble_chunk; part_name None is the name NoneValue
build_preamble_chunk(content, start_line, end_line) ==
    CodeChunk(content, PartName(NoneValue, 0), NoneValue, new_hash(content),
              start_line, end_line, NoneValue, PREAMBLE)

\* _CodeChunker._yield_function_chunks_with_ranges from the call of
\* _build_imports on, with its locals docstring, (additional_context,
\* additional_context_no_docstring) and function_content
FunctionChunkWithRanges(node, docstring, context, function_content) ==
    LET imports == build_imports(import_nodes, node, context[2])
        function_name == IF get_function_name(node) # NoneValue THEN get_function_name(node)
                         ELSE <<"unknown_function">>
        used_imports == find_used_imports_in_function(import_nodes, node, context[2],
                                                      module_variables)
        class_node == ClassAbove(tree[node].parent)
        variables == IF DOMAIN module_variables # {}
                     THEN VariableLoop(SortedTexts(find_used_variables(node)))
                     ELSE << <<>>, <<>> >>
        chunk_used_ranges ==
            << <<tree[node].start_byte, tree[node].end_byte>> >>
            \o (IF imports # <<>>
                THEN ImportRanges(import_nodes,
                                  SortedTexts(used_imports \cap DOMAIN import_nodes))
                ELSE <<>>)
            \o (IF file_prefix[1] # <<>> THEN file_prefix[2] ELSE <<>>)
            \o (IF context[1] # <<>> /\ class_node # 0
                THEN << <<tree[class_node].start_byte, tree[class_node].end_byte>> >>
                     \o get_class_member_ranges(class_node)
                ELSE <<>>)
            \o variables[1]
        function_no_docstring == IF docstring # <<>> THEN remove(function_content, docstring)
                                 ELSE function_content
        base_content == file_prefix[1] \o imports \o variables[2]
                        \o context[2] \o function_no_docstring
    IN  <<build_function_chunk(base_content, function_name, docstring,
                               tree[node].start_row, tree[node].end_row,
                               get_function_signature_end(node)),
          chunk_used_ranges>>

\* _CodeChunker._yield_function_chunks_with_ranges: (chunk, used_ranges)
yield_function_chunks_with_ranges(node) ==
    FunctionChunkWithRanges(node, get_docstring(node), build_additional_context(node),
                            build_function(node))

\* _CodeChunker._yield_class_chunk_with_ranges from the call of
\* _build_imports on, with its locals docstring and function_content
ClassChunkWithRanges(node, docstring, function_content) ==
    LET imports == build_imports(import_nodes, node, function_content)
        class_name == IF get_function_name(node) # NoneValue THEN get_function_name(node)
                      ELSE <<"unknown_class">>
        used_imports == find_used_imports_in_function(import_nodes, node, function_content,
                                                      <<>>)
        chunk_used_ranges ==
            get_node_ranges_with_comments(node)
            \o (IF imports # <<>>
                THEN ImportRanges(import_nodes,
                                  SortedTexts(used_imports \cap DOMAIN import_nodes))
                ELSE <<>>)
            \o (IF file_prefix[1] # <<>> THEN file_prefix[2] ELSE <<>>)
        function_no_docstring == IF docstring # <<>> THEN remove(function_content, docstring)
                                 ELSE function_content
        content_no_docstring == file_prefix[1] \o imports \o function_no_docstring
    IN  <<build_class_chunk(content_no_docstring, class_name, docstring,
                            tree[node].start_row, tree[node].end_row),
          chunk_used_ranges>>

\* _CodeChunker._yield_class_chunk_with_ranges: (chunk, used_ranges)
yield_class_chunk_with_ranges(node) ==
    ClassChunkWithRanges(node, get_docstring(node), build_class_with_comments(node))

\* _CodeChunker._mark_copyright_comments: the ranges it marks used
mark_copyright_comments ==
    LET marked == SelectSeq(get_children(1, self.docs_types), LAMBDA n :
                     \E keyword \in self.copyright_words : Contains(lower(to_str(n)), keyword))
    IN  [i \in DOMAIN marked |-> <<tree[marked[i]].start_byte, tree[marked[i]].end_byte>>]

\* _CodeChunker._track_constructor_variables: the ranges it marks used.  The
\* walk visits the nodes in document order; the names of a set, which Python
\* iterates in no fixed order, are taken sorted (merge_ranges sorts the list).
RECURSIVE VariableRanges(_)
VariableRanges(names) ==
    IF names = <<>> THEN <<>>
    ELSE << <<tree[module_variables[Head(names)]].start_byte,
              tree[module_variables[Head(names)]].end_byte>> >>
         \o VariableRanges(Tail(names))
RECURSIVE TrackLoop(_)
TrackLoop(n) ==
    IF n > Len(tree) THEN <<>>
    ELSE (IF /\ tree[n].type \in self.function_definition_types
             /\ is_constructor(n)
             /\ ~is_only_function_in_class(n)
          THEN VariableRanges(SortedTexts(find_used_variables(n)
                                          \cap DOMAIN module_variables))
          ELSE <<>>)
         \o TrackLoop(n + 1)
track_constructor_variables == TrackLoop(1)

\* line numbers in which the end is taken to be the start
calculate_line_numbers_of_start(code, start_byte, end_byte) ==
    <<CountNewlines(SubSeq(code, 1, start_byte)) + 1,
      CountNewlines(SubSeq(code, 1, start_byte)) + 1>>

\* _ChunkMetadataBuilder.calculate_line_numbers: (start_line, end_line)
calculate_line_numbers(code, start_byte, end_byte) ==
    LET start_line == CountNewlines(SubSeq(code, 1, start_byte)) + 1
        end_line == IF end_byte > 0 /\ end_byte <= Len(code)
                    THEN CountNewlines(SubSeq(code, 1, end_byte)) + 1
                         - (IF end_byte < Len(code) /\ code[end_byte] = "\n" THEN 1 ELSE 0)
                    ELSE start_line
    IN  <<start_line, end_line>>

\* _ChunkBuilder.process_orphan_chunks: the chunks it yields, none or one
process_orphan_chunks(ranges, code) ==
    LET gaps == find_gaps(ranges, Len(code))
        orphan_pieces == SelectSeq(gaps, LAMBDA g : strip(SubSeq(code, g[1] + 1, g[2])) # <<>>)
        merged_content == join(<<"\n", "\n">>,
                               [i \in DOMAIN orphan_pieces |->
                                   strip(SubSeq(code, orphan_pieces[i][1] + 1,
                                                orphan_pieces[i][2]))])
        line_numbers == calculate_line_numbers(code, orphan_pieces[1][1],
                                               orphan_pieces[Len(orphan_pieces)][2])
    IN  IF code = <<>> \/ orphan_pieces = <<>> THEN <<>>
        ELSE <<build_preamble_chunk(merged_content, line_numbers[1], line_numbers[2])>>

\* =========================================================================
\* StandardCodeChunkingStrategy
\* =========================================================================

\* the keyword arguments a strategy is constructed with; <<>> for one that
\* is not given, <<v>> for one given as v
Kwargs ==
    {[tokenizer |-> <<>>, max_tokens |-> <<>>, min_chunk_size |-> <<>>],
     [tokenizer |-> <<>>, max_tokens |-> <<SmallMaxTokens>>, min_chunk_size |-> <<>>],
     [tokenizer |-> <<>>, max_tokens |-> <<SmallMaxTokens>>, min_chunk_size |-> <<0>>]}

\* what a source unit may end with
Trailers == {<<>>, <<"\n">>}

\* texts with nothing but white space
BlankTexts == {<<>>, <<" ">>, <<"\n">>}

\* the item texts, each with the tree the parser returns for it
Inputs ==
    {ParseUnit(unit, trailer) : unit \in UnitsOf(MaxItems), trailer \in Trailers}
    \cup {[code |-> blank,
           tree |-> <<Node("module", 0, Len(blank), 0, CountNewlines(blank), 0, 0, "")>>] :
          blank \in BlankTexts}

\* StandardCodeChunkingStrategy.__init__, and the code item the strategy is
\* called with
Init ==
    /\ TrackerInit
    /\ SizeIdle
    /\ chunker_kwargs \in Kwargs
    /\ chunker_cache = [l \in Languages |-> <<>>]
    /\ code_language \in Languages
    /\ \E input \in Inputs : code_text = input.code /\ tree = input.tree
    /\ import_nodes = <<>>
    /\ module_variables = <<>>
    /\ emitted = <<>>
    /\ previous = <<>>
    /\ invocations = <<>>
    /\ created = <<>>

\* the item texts of nested definitions, each with its tree
DefinitionInputs ==
    {ParseUnit(unit, trailer) : unit \in DefinitionUnitsOf(MaxDefinitions), trailer \in Trailers}

\* a strategy and a code item of nested definitions
DefinitionsInit ==
    /\ TrackerInit
    /\ SizeIdle
    /\ chunker_kwargs \in Kwargs
    /\ chunker_cache = [l \in Languages |-> <<>>]
    /\ code_language \in Languages
    /\ \E input \in DefinitionInputs : code_text = input.code /\ tree = input.tree
    /\ import_nodes = <<>>
    /\ module_variables = <<>>
    /\ emitted = <<>>
    /\ previous = <<>>
    /\ invocations = <<>>
    /\ created = <<>>

\* a cache whose chunker, once it is asked for again, is one constructed
\* without the keyword arguments of the strategy
get_chunker_forgetting_kwargs(language) ==
    IF language \in DOMAIN INNER_CHUNKERS_BY_LANG
    THEN [chunker_cache EXCEPT
            ![language] = <<NewChunker(INNER_CHUNKERS_BY_LANG[language],
                                       IF chunker_cache[language] # <<>>
                                       THEN [tokenizer |-> <<>>, max_tokens |-> <<>>,
                                             min_chunk_size |-> <<>>]
                                       ELSE chunker_kwargs)>>]
    ELSE chunker_cache

\* StandardCodeChunkingStrategy._get_chunker: the cache after the call, the
\* entry of the language being <<>> when there is no chunker for it
get_chunker(language) ==
    IF chunker_cache[language] # <<>> THEN chunker_cache
    ELSE IF language \in DOMAIN INNER_CHUNKERS_BY_LANG
    THEN [chunker_cache EXCEPT
            ![language] = <<NewChunker(INNER_CHUNKERS_BY_LANG[language], chunker_kwargs)>>]
    ELSE chunker_cache

\* the chunk of the fallback branch of chunk_code_item
FallbackChunk(text) ==
    CodeChunk(text, PartName(NoneValue, 0), NoneValue, new_hash(text),
              1, Len(splitlines(text)), NoneValue, CODE_BLOCK)

\* s1 + s2 + ... for a list of lists
RECURSIVE Concat(_)
Concat(lists) == IF lists = <<>> THEN <<>> ELSE Head(lists) \o Concat(Tail(lists))

\* chunk_code_item up to the first step of chunker.chunk: an item of blank
\* text yields nothing, one without a chunker the fallback chunk, and for any
\* other chunk() starts with a new tracker and size processor
ChunkCodeItem ==
    /\ pc \in {"idle", "done"}
    /\ previous' = IF pc = "done" THEN <<emitted>> ELSE previous
    /\ all_chunks' = <<>>
    /\ used_ranges' = <<>>
    /\ yielded' = <<>>
    /\ chunks' = <<>>
    /\ signature_line' = <<>>
    /\ idx' = 0
    /\ IF strip(code_text) = <<>>
       THEN /\ emitted' = <<>>
            /\ pc' = "done"
            /\ UNCHANGED <<chunker_cache, tokenizer, max_tokens, min_chunk_size,
                           chunk_prefix, chunk_suffix>>
       ELSE IF get_chunker(code_language)[code_language] = <<>>
       THEN /\ emitted' = <<FallbackChunk(code_text)>>
            /\ pc' = "done"
            /\ UNCHANGED <<chunker_cache, tokenizer, max_tokens, min_chunk_size,
                           chunk_prefix, chunk_suffix>>
       ELSE /\ chunker_cache' = get_chunker(code_language)
            /\ tokenizer' = chunker_cache'[code_language][1].tokenizer
            /\ max_tokens' = chunker_cache'[code_language][1].max_tokens
            /\ min_chunk_size' = chunker_cache'[code_language][1].min_chunk_size
            /\ chunk_prefix' = chunker_cache'[code_language][1].chunk_prefix
            /\ chunk_suffix' = chunker_cache'[code_language][1].chunk_suffix
            /\ emitted' = <<>>
            /\ pc' = "parse"
    /\ import_nodes' = <<>>
    /\ module_variables' = <<>>
    /\ UNCHANGED <<call, ret, chunker_kwargs, code_language, code_text, tree,
                   invocations, created>>

\* chunk: from the parse of the code to _mark_copyright_comments
ParseCode ==
    /\ pc = "parse"
    /\ import_nodes' = get_imports
    /\ module_variables' = get_module_variables
    /\ used_ranges' = used_ranges \o mark_copyright_comments
    /\ pc' = "functions"
    /\ UNCHANGED <<call, ret, tokenizer, max_tokens, min_chunk_size, chunk_prefix,
                   chunk_suffix, all_chunks, idx, yielded, chunks, signature_line,
                   chunker_kwargs, chunker_cache, code_language, code_text, tree,
                   emitted, previous, invocations, created>>

\* chunk: the loop over _get_all_functions
ExtractFunctions ==
    /\ pc = "functions"
    /\ \E functions \in {get_all_functions(1, "")} :
       \E found \in {[i \in DOMAIN functions |->
                         yield_function_chunks_with_ranges(functions[i])]} :
          /\ all_chunks' = all_chunks \o found
          /\ used_ranges' = used_ranges \o Concat([i \in DOMAIN found |-> found[i][2]])
    /\ pc' = "constructors"
    /\ UNCHANGED <<call, ret, tokenizer, max_tokens, min_chunk_size, chunk_prefix,
                   chunk_suffix, idx, yielded, chunks, signature_line, itemVars, emitted>>

\* chunk: `if module_variables: self._track_constructor_variables(...)`
TrackConstructorVariables ==
    /\ pc = "constructors"
    /\ used_ranges' = used_ranges
                      \o (IF DOMAIN module_variables # {}
                          THEN track_constructor_variables
                          ELSE <<>>)
    /\ pc' = "classes"
    /\ UNCHANGED <<call, ret, tokenizer, max_tokens, min_chunk_size, chunk_prefix,
                   chunk_suffix, all_chunks, idx, yielded, chunks, signature_line,
                   itemVars, emitted>>

\* chunk: the loop over _get_classes_no_methods
ExtractClasses ==
    /\ pc = "classes"
    /\ \E empty_classes \in {get_classes_no_methods(1, "")} :
       \E found \in {[i \in DOMAIN empty_classes |->
                         yield_class_chunk_with_ranges(empty_classes[i])]} :
          /\ all_chunks' = all_chunks \o found
          /\ used_ranges' = used_ranges \o Concat([i \in DOMAIN found |-> found[i][2]])
    /\ pc' = "orphans"
    /\ UNCHANGED <<call, ret, tokenizer, max_tokens, min_chunk_size, chunk_prefix,
                   chunk_suffix, idx, yielded, chunks, signature_line, itemVars, emitted>>

\* chunk: the loop over process_orphan_chunks, after which process_chunks
\* starts on all_chunks
ProcessOrphans ==
    /\ pc = "orphans"
    /\ LET orphans == process_orphan_chunks(merge_ranges(used_ranges), code_text)
       IN  all_chunks' = all_chunks \o [i \in DOMAIN orphans |-> <<orphans[i], <<>> >>]
    /\ idx' = 1
    /\ pc' = "process"
    /\ UNCHANGED <<rangeVars, tokenizer, max_tokens, min_chunk_size, chunk_prefix,
                   chunk_suffix, yielded, chunks, signature_line, itemVars, emitted>>

\* the caller drops the strategy and constructs a new one with the same
\* keyword arguments: StandardCodeChunkingStrategy.__init__
NewStrategy ==
    /\ pc = "done"
    /\ chunker_cache' = [l \in Languages |-> <<>>]
    /\ UNCHANGED <<rangeVars, sizeVars, chunker_kwargs, code_language, code_text, tree,
                   import_nodes, module_variables, previous, emitted,
                   invocations, created>>

Next ==
    \/ ChunkCodeItem
    \/ NewStrategy
    \/ ParseCode
    \/ ExtractFunctions
    \/ TrackConstructorVariables
    \/ ExtractClasses
    \/ ProcessOrphans
    \/ ProcessChunk
    \/ MergeTailStep
    \/ EmitPieces
    \/ ProcessDone

Spec == Init /\ [][Next]_vars

SpecDefinitions == DefinitionsInit /\ [][Next]_vars

\* =========================================================================
\* Specifications
\* =========================================================================

RangeInit == TrackerInit /\ SizeIdle /\ StrategyIdle

SpecRange == RangeInit /\ [][RangeNext]_vars

\* ---- chunk_code_item calls in parallel on one strategy

\* the language labels of the items: those with a chunker and one without
CodeLanguageLabels == DOMAIN INNER_CHUNKERS_BY_LANG \cup Languages

\* a call of chunk_code_item that has not started, for an item of non-blank text
NewInvocation(language) ==
    [language |-> language, pc |-> "lookup", chunker |-> <<>>,
     range_tracker |-> <<>>, size_processor |-> <<>>, fallback |-> FALSE]

\* _get_chunker: `if chunker_instance := self._chunker_cache.get(language)`,
\* and the lookup of the class when there is none; without a class the call
\* yields the fallback chunk and ends
CacheLookup ==
    \E i \in DOMAIN invocations :
       /\ invocations[i].pc = "lookup"
       /\ LET language == invocations[i].language
          IN  invocations' = [invocations EXCEPT ![i] =
                 IF chunker_cache[language] # <<>>
                 THEN [@ EXCEPT !.chunker = chunker_cache[language], !.pc = "chunk"]
                 ELSE IF language \in DOMAIN INNER_CHUNKERS_BY_LANG
                 THEN [@ EXCEPT !.pc = "create"]
                 ELSE [@ EXCEPT !.fallback = TRUE, !.pc = "done"]]
       /\ UNCHANGED <<rangeVars, sizeVars, emitted, chunker_kwargs, chunker_cache,
                      code_language, code_text, tree, import_nodes, module_variables,
                      previous, created>>

\* _get_chunker: `self._chunker_cache[language] = chunker_class(**self.chunker_kwargs)`
CacheStore ==
    \E i \in DOMAIN invocations :
       /\ invocations[i].pc = "create"
       /\ LET language == invocations[i].language
          IN  /\ chunker_cache' = [chunker_cache EXCEPT ![language] =
                     <<NewChunker(INNER_CHUNKERS_BY_LANG[language], chunker_kwargs)>>]
              /\ created' = [created EXCEPT ![language] = @ + 1]
       /\ invocations' = [invocations EXCEPT ![i].pc = "return"]
       /\ UNCHANGED <<rangeVars, sizeVars, emitted, chunker_kwargs,
                      code_language, code_text, tree, import_nodes, module_variables,
                      previous>>

\* _get_chunker: `return self._chunker_cache[language]`
CacheReturn ==
    \E i \in DOMAIN invocations :
       /\ invocations[i].pc = "return"
       /\ invocations' = [invocations EXCEPT
                            ![i].chunker = chunker_cache[invocations[i].language],
                            ![i].pc = "chunk"]
       /\ UNCHANGED <<rangeVars, sizeVars, emitted, chunker_kwargs, chunker_cache,
                      code_language, code_text, tree, import_nodes, module_variables,
                      previous, created>>

\* chunker.chunk: the range tracker and the size processor the call creates
\* for its item; what it extracts with them is local to the call
StartChunk ==
    \E i \in DOMAIN invocations :
       /\ invocations[i].pc = "chunk"
       /\ invocations' = [invocations EXCEPT
             ![i].range_tracker = << <<>> >>,
             ![i].size_processor =
                 <<[tokenizer |-> invocations[i].chunker[1].tokenizer,
                    max_tokens |-> invocations[i].chunker[1].max_tokens,
                    min_chunk_size |-> invocations[i].chunker[1].min_chunk_size]>>,
             ![i].pc = "done"]
       /\ UNCHANGED <<rangeVars, sizeVars, emitted, chunker_kwargs, chunker_cache,
                      code_language, code_text, tree, import_nodes, module_variables,
                      previous, created>>

\* a strategy constructed with some keyword arguments, and the calls of
\* chunk_code_item made on it, none of which has started
ParallelInit ==
    /\ TrackerInit
    /\ SizeIdle
    /\ chunker_kwargs \in Kwargs
    /\ chunker_cache = [l \in CodeLanguageLabels |-> <<>>]
    /\ code_language = NoneValue
    /\ code_text = <<>>
    /\ tree = <<>>
    /\ import_nodes = <<>>
    /\ module_variables = <<>>
    /\ emitted = <<>>
    /\ previous = <<>>
    /\ invocations \in [1..MaxInvocations -> {NewInvocation(l) : l \in CodeLanguageLabels}]
    /\ created = [l \in CodeLanguageLabels |-> 0]

ParallelNext == CacheLookup \/ CacheStore \/ CacheReturn \/ StartChunk

SpecParallel == ParallelInit /\ [][ParallelNext]_vars

\* =========================================================================
\* Properties
\* =========================================================================

\* offset x lies in the half-open range r
InRange(r, x) == r[1] <= x /\ x < r[2]

\* every used range ends at or before total_length
WithinLength(R, total_length) == \A i \in DOMAIN R : R[i][2] <= total_length

\* C1: merging is idempotent: merge_ranges on a tracker that holds the
\* result of merge_ranges(R) returns that same list.
C1_MergeIdempotent ==
    merge_ranges(merge_ranges(used_ranges)) = merge_ranges(used_ranges)

\* C1 witness: merge_ranges has just run on a tracker that was cleared and
\* refilled with a merged list of two ranges, and gave that list back.
C1_Witness ==
    /\ call = <<"merge_ranges">>
    /\ Len(used_ranges) >= 2
    /\ ret = used_ranges

\* C2: after find_gaps(total_length) on ranges with start <= end <=
\* total_length, the merged ranges and the gaps partition [0, total_length):
\* each offset lies in exactly one of them, none reaches outside.
C2_MergeGapsPartition ==
    (call[1] = "find_gaps" /\ WithinLength(used_ranges, call[2])) =>
        LET parts == merge_ranges(used_ranges) \o ret
        IN  /\ \A x \in 0..(call[2] - 1) :
                  Cardinality({i \in DOMAIN parts : InRange(parts[i], x)}) = 1
            /\ \A i \in DOMAIN parts :
                  0 <= parts[i][1] /\ parts[i][1] <= parts[i][2] /\ parts[i][2] <= call[2]
            /\ \A i \in DOMAIN ret : ret[i][1] < ret[i][2]

\* C2 witness: find_gaps returned two gaps around used ranges that overlap.
C2_Witness ==
    /\ call[1] = "find_gaps"
    /\ WithinLength(used_ranges, call[2])
    /\ Len(ret) >= 2
    /\ Len(merge_ranges(used_ranges)) < Len(used_ranges)

\* C3 as stated: for every total_length >= 0 and every used list within it
\* (the empty one included) merge(gaps(total_length) + used) = [(0, total_length)].
C3_Original ==
    (call[1] = "find_gaps" /\ WithinLength(used_ranges, call[2])) =>
        merge_ranges(ret \o used_ranges) = << <<0, call[2]>> >>

\* C3 amended: merge(gaps(total_length) + used) = [(0, total_length)] unless
\* total_length = 0 and used is empty, where the merge is the empty list.
C3_MergeGapsUsedIsWhole ==
    (call[1] = "find_gaps" /\ WithinLength(used_ranges, call[2])) =>
        merge_ranges(ret \o used_ranges) =
            IF call[2] = 0 /\ used_ranges = <<>> THEN <<>> ELSE << <<0, call[2]>> >>

\* C3 witness: the tracker was extended with its own gaps and merge_ranges
\* then returned the single range (0, total_length).
C3_Witness ==
    /\ call = <<"merge_ranges">>
    /\ \E k \in 1..(Len(used_ranges) - 1) : \E total_length \in 1..MaxByte :
          /\ SubSeq(used_ranges, k + 1, Len(used_ranges)) =
                find_gaps(SubSeq(used_ranges, 1, k), total_length)
          /\ WithinLength(used_ranges, total_length)
          /\ ret = << <<0, total_length>> >>

\* the chunk the size processor is working on
CurrentChunk == all_chunks[idx][1]

\* C5 as stated: every piece the function split is about to emit for an
\* oversized FUNCTION/METHOD chunk (signature line, block-opening token, body
\* lines and block-closing token included, the undersized last piece merged)
\* has a token count <= max_tokens.
C5_FunctionPiecesWithinMaxTokens ==
    (pc = "emit" /\ IsFunctionKind(CurrentChunk) /\ IsOversized(CurrentChunk)) =>
        \A i \in DOMAIN chunks : count_tokens(chunks[i]) <= max_tokens

\* C8: in the function split the last piece is merged into the one before it
\* exactly when more than one piece was accumulated and the last piece counts
\* fewer than min_chunk_size tokens; the pieces before those two are kept, the
\* count drops by one, and whatever `chunks` then holds is emitted piece by piece.
C8_TailStep ==
    LET n == Len(chunks)
        undersized == n > 1 /\ count_tokens(chunks[n]) < min_chunk_size
    IN  /\ pc' = "emit"
        /\ undersized <=> Len(chunks') = n - 1
        /\ ~undersized => chunks' = chunks
        /\ undersized =>
              /\ SubSeq(chunks', 1, n - 2) = SubSeq(chunks, 1, n - 2)
              /\ Len(chunks'[n - 1]) > Len(rstrip(chunks[n - 1], CharsOf(chunk_suffix)))

C8_EmitStep ==
    /\ Len(yielded') = Len(yielded) + Len(chunks)
    /\ \A i \in DOMAIN chunks : yielded'[Len(yielded) + i][1].text = chunks[i]

C8_TailMergedExactlyWhenUndersized ==
    [][(pc = "tail" => C8_TailStep) /\ (pc = "emit" => C8_EmitStep)]_vars

\* C8 witness: three pieces were accumulated and the undersized third one was
\* merged into the second, leaving two to emit.
C8_Witness ==
    /\ pc = "emit"
    /\ Len(chunks) = 2
    /\ Len(Accumulate(CurrentChunk.text)) = 3
    /\ min_chunk_size > 0

\* the body lines of the first chunk handed to the size processor
FirstBody == BodyLines(split(all_chunks[1][1].text))

\* the function of the scenario: body lines of 12,000 tokens in all, none of
\* them above max_tokens, split with max_tokens = 5000 and min_chunk_size =
\* 300, the last accumulated piece holding at least min_chunk_size tokens
ScenarioCase ==
    /\ pc = "done"
    /\ max_tokens = 5000 /\ min_chunk_size = 300
    /\ all_chunks[1][1].meta.chunk_type = FUNCTION
    /\ LineTokens(tokenizer, FirstBody) = 12000
    /\ \A i \in DOMAIN FirstBody : count_tokens(FirstBody[i]) <= max_tokens
    /\ LET acc == Accumulate(all_chunks[1][1].text)
       IN  count_tokens(acc[Len(acc)]) >= min_chunk_size

\* C7 as stated: the split yields exactly 3 FUNCTION pieces for every
\* division of the body into lines.
C7_Original ==
    ScenarioCase =>
        /\ Len(yielded) = 3
        /\ \A i \in DOMAIN yielded : yielded[i][1].meta.chunk_type = FUNCTION

\* C7 amended: the split yields at least 3 FUNCTION pieces and at most one
\* piece per body line; how many depends on how the lines fill the pieces.
C7_AtLeastThreePieces ==
    ScenarioCase =>
        /\ Len(yielded) >= 3
        /\ Len(yielded) <= Len(FirstBody)
        /\ \A i \in DOMAIN yielded : yielded[i][1].meta.chunk_type = FUNCTION

\* C7 witness: a body of 5000 + 5000 + 2000 tokens came out as 3 pieces.
C7_Witness ==
    /\ ScenarioCase
    /\ Len(FirstBody) = 3
    /\ Len(yielded) = 3

\* =========================================================================
\* Properties of chunk_code_item
\* =========================================================================

IsPrefix(s, t) == Len(s) <= Len(t) /\ SubSeq(t, 1, Len(s)) = s

\* the step of process_chunks on a chunk within max_tokens
C4_PassThroughStep ==
    (/\ pc = "process"
     /\ idx \in DOMAIN all_chunks
     /\ count_tokens(all_chunks[idx][1].text) <= max_tokens)
    => /\ yielded' = Append(yielded, all_chunks[idx])
       /\ emitted' = Append(emitted, all_chunks[idx][1])
       /\ idx' = idx + 1
       /\ all_chunks' = all_chunks

\* a step of process_chunks keeps what was yielded before, in its order, and
\* goes on with the next chunk or stays at the one it is splitting
C4_OrderStep ==
    pc \in {"process", "tail", "emit"}
    => /\ IsPrefix(yielded, yielded')
       /\ IsPrefix(emitted, emitted')
       /\ idx' \in {idx, idx + 1}
       /\ all_chunks' = all_chunks

\* C4: process_chunks yields a chunk whose token count is at most max_tokens
\* as exactly that one chunk, text and metadata unchanged, after everything
\* yielded for the chunks before it and before anything yielded for the
\* chunks after it.
C4_PassThroughInPosition == [][C4_PassThroughStep /\ C4_OrderStep]_vars

\* a chunk within max_tokens was yielded as it is after the pieces of an
\* oversized chunk that stands before it
C4_Witness ==
    /\ pc = "done"
    /\ \E k \in 2..Len(all_chunks) :
          /\ IsOversized(all_chunks[k - 1][1])
          /\ ~IsOversized(all_chunks[k][1])
          /\ \E j \in 3..Len(yielded) :
                /\ yielded[j] = all_chunks[k]
                /\ yielded[j - 1][1].meta.part_name.part >= 2

\* the line of the source on which the function of a FUNCTION chunk starts
OriginalSignatureLine(chunk) == strip(split(code_text)[chunk.meta.start_line + 1])

\* C6: every piece of the function split of an oversized FUNCTION chunk the
\* extraction has built begins with the signature line of the function, the
\* line of the source the function starts on.
C6_PiecesBeginWithSignature ==
    (pc = "emit" /\ tree # <<>>)
    => \A i \in DOMAIN chunks :
          IsPrefix(OriginalSignatureLine(CurrentChunk), lstrip(chunks[i], Whitespace))

\* the number of lines of a text
LineCount(text) ==
    CountNewlines(text) + (IF text # <<>> /\ text[Len(text)] # "\n" THEN 1 ELSE 0)

\* what chunk_code_item has emitted for an item without a chunker is the one
\* CODE_BLOCK chunk of the text, and nothing was extracted or size-processed
OneCodeBlock ==
    /\ Len(emitted) = 1
    /\ emitted[1].text = code_text
    /\ emitted[1].meta.chunk_type = CODE_BLOCK
    /\ emitted[1].meta.start_line = 1
    /\ emitted[1].meta.end_line = LineCount(code_text)
    /\ emitted[1].meta.sha256 = new_hash(code_text)
    /\ all_chunks = <<>>
    /\ used_ranges = <<>>
    /\ yielded = <<>>

\* C9 as stated: for every input text, a language tag without a chunker gets
\* exactly one CODE_BLOCK chunk of the verbatim text.
C9_Original ==
    (pc = "done" /\ code_language \notin DOMAIN INNER_CHUNKERS_BY_LANG) => OneCodeBlock

\* C9: for every input text with a non-blank character and every language
\* tag without a chunker, chunk_code_item emits exactly one chunk, of kind
\* CODE_BLOCK, with the input as its text, start_line 1, end_line the number
\* of lines of the input and the hash of the raw text, and runs no
\* extraction, orphan collection or size processing; for a text of white
\* space only it emits nothing.
C9_OneCodeBlockForNonBlankText ==
    (pc = "done" /\ code_language \notin DOMAIN INNER_CHUNKERS_BY_LANG)
    => IF strip(code_text) = <<>> THEN emitted = <<>> ELSE OneCodeBlock

\* a text of several lines that ends with a line break and is longer than
\* the max_tokens of the strategy came out as one chunk
C9_Witness ==
    /\ pc = "done"
    /\ code_language \notin DOMAIN INNER_CHUNKERS_BY_LANG
    /\ chunker_kwargs.max_tokens = <<SmallMaxTokens>>
    /\ Len(code_text) > SmallMaxTokens
    /\ code_text[Len(code_text)] = "\n"
    /\ Len(emitted) = 1
    /\ emitted[1].meta.end_line >= 2

\* the function and class chunks that were emitted
IsNodeChunk(chunk) == chunk.meta.chunk_type \in {FUNCTION, METHOD, CLASS}

\* nothing but PREAMBLE chunks after a PREAMBLE chunk
PreambleLast ==
    \A i, j \in DOMAIN emitted :
        (i < j /\ emitted[i].meta.chunk_type = PREAMBLE)
        => emitted[j].meta.chunk_type = PREAMBLE

\* C10 as stated: function and class chunks are emitted in the order of the
\* start positions of their nodes, the PREAMBLE chunk after them.
C10_Original ==
    (pc = "done" /\ code_language \in DOMAIN INNER_CHUNKERS_BY_LANG)
    => /\ \A i, j \in DOMAIN emitted :
             (i < j /\ IsNodeChunk(emitted[i]) /\ IsNodeChunk(emitted[j]))
             => emitted[i].meta.start_line <= emitted[j].meta.start_line
       /\ PreambleLast

\* C10: for every source unit in a supported language the function chunks
\* are emitted first, in the order of the start positions of their nodes,
\* then the chunks of the classes without methods, in that order, then the
\* PREAMBLE chunk; no class chunk is emitted before a function chunk.
C10_FunctionsThenClassesThenPreamble ==
    (pc = "done" /\ code_language \in DOMAIN INNER_CHUNKERS_BY_LANG)
    => /\ \A i, j \in DOMAIN emitted :
             (i < j /\ IsNodeChunk(emitted[i]) /\ IsNodeChunk(emitted[j]))
             => /\ ~(emitted[i].meta.chunk_type = CLASS
                     /\ emitted[j].meta.chunk_type # CLASS)
                /\ emitted[i].meta.chunk_type = emitted[j].meta.chunk_type
                   => emitted[i].meta.start_line <= emitted[j].meta.start_line
       /\ PreambleLast

\* a function, then a class that stands before it in the source, then the
\* preamble
C10_Witness ==
    /\ pc = "done"
    /\ code_language \in DOMAIN INNER_CHUNKERS_BY_LANG
    /\ \E j, k \in DOMAIN emitted :
          /\ j < k
          /\ emitted[j].meta.chunk_type = FUNCTION
          /\ emitted[k].meta.chunk_type = CLASS
          /\ emitted[k].meta.start_line < emitted[j].meta.start_line
    /\ emitted[Len(emitted)].meta.chunk_type = PREAMBLE

\* ---------------------------------------------------------------------------
\* C11: determinism. Chunking the same text with the same language, tokenizer
\* and limits a second time, on the same strategy (the chunker then comes from
\* the cache) or on a new one, yields the same ordered sequence of
\* (text, chunk_kind, start_line, end_line) tuples as the call before.
TuplesOf(chunk_list) ==
    [i \in DOMAIN chunk_list |->
        <<chunk_list[i].text, chunk_list[i].meta.chunk_type,
          chunk_list[i].meta.start_line, chunk_list[i].meta.end_line>>]

TopLevelFunctions ==
    {n \in DOMAIN tree :
        /\ tree[n].type \in PythonFunctionChunker.function_definition_types
        /\ \/ tree[n].parent = 1
           \/ /\ tree[tree[n].parent].type = PythonFunctionChunker.decorator_type
              /\ tree[tree[n].parent].parent = 1}

\* the whole definition of a function: with its decorator when it has one
DefinitionOf(n) ==
    IF tree[tree[n].parent].type = PythonFunctionChunker.decorator_type THEN tree[n].parent ELSE n

\* the unit is run by the Python chunker and no chunk of it is over max_tokens
ExtractedWithinLimit ==
    /\ pc = "done"
    /\ code_language \in DOMAIN INNER_CHUNKERS_BY_LANG
    /\ strip(code_text) # <<>>
    /\ \A i \in DOMAIN all_chunks : ~IsOversized(all_chunks[i][1])

\* the chunks of one kind among the emitted ones, in the order of emission
EmittedOfKind(kind) == SelectSeq(emitted, LAMBDA chunk : chunk.meta.chunk_type = kind)

\* non-whitespace text outside the definitions of the top-level functions
ContentOutsideFunctions ==
    \E i \in DOMAIN code_text :
        /\ code_text[i] \notin Whitespace
        /\ \A n \in TopLevelFunctions :
              ~(tree[DefinitionOf(n)].start_byte < i /\ i <= tree[DefinitionOf(n)].end_byte)

NoClassNode == \A n \in DOMAIN tree : tree[n].type \notin PythonFunctionChunker.class_definition_types

\* C12: a Python unit with exactly two top-level functions and no class
\* yields exactly 2 FUNCTION chunks, in source order, and a PREAMBLE chunk only
\* if there is non-whitespace top-level content outside the two functions.
C12_TwoFunctionsAndPreambleOnlyForOtherContent ==
    (ExtractedWithinLimit /\ Cardinality(TopLevelFunctions) = 2 /\ NoClassNode)
    => /\ Len(EmittedOfKind(FUNCTION)) = 2
       /\ EmittedOfKind(FUNCTION)[1].meta.start_line
            < EmittedOfKind(FUNCTION)[2].meta.start_line
       /\ Len(EmittedOfKind(CLASS)) = 0
       /\ Len(EmittedOfKind(PREAMBLE)) <= 1
       /\ (Len(EmittedOfKind(PREAMBLE)) = 1 => ContentOutsideFunctions)

\* ---------------------------------------------------------------------------
\* the function definitions in the body of a class, decorated ones included
FunctionsOfClass(c) ==
    {n \in DOMAIN tree :
        /\ tree[n].type \in PythonFunctionChunker.function_definition_types
        /\ tree[DefinitionOf(n)].parent # 0
        /\ tree[tree[DefinitionOf(n)].parent].parent = c}

\* the classes whose only function is the constructor
ConstructorOnlyClasses ==
    {c \in DOMAIN tree :
        /\ tree[c].type \in PythonFunctionChunker.class_definition_types
        /\ Cardinality(FunctionsOfClass(c)) = 1
        /\ \A n \in FunctionsOfClass(c) :
              NodeText(child_by_field_name(n, PythonFunctionChunker.name_field))
                = PythonFunctionChunker.constructor_name}

\* the chunks of a list that start within the rows of node c
ChunksWithin(chunk_list, c, kind) ==
    SelectSeq(chunk_list, LAMBDA chunk :
        /\ chunk.meta.chunk_type = kind
        /\ chunk.meta.start_line >= tree[c].start_row
        /\ chunk.meta.start_line <= tree[c].end_row)

\* the chunks extraction has built, before process_chunks
Extracted == [i \in DOMAIN all_chunks |-> all_chunks[i][1]]

MethodlessClasses ==
    {c \in DOMAIN tree :
        /\ tree[c].type \in PythonFunctionChunker.class_definition_types
        /\ FunctionsOfClass(c) = {}}

\* the (chunk, ranges) pairs of kind CLASS built for the class node c
ClassPairsOf(c) ==
    SelectSeq(all_chunks, LAMBDA pair :
        /\ pair[1].meta.chunk_type = CLASS
        /\ pair[1].meta.start_line = tree[c].start_row)

C15_LinesOneBasedWithinSource ==
    pc = "done"
    => \A i \in DOMAIN emitted :
          /\ 1 <= emitted[i].meta.start_line
          /\ emitted[i].meta.start_line <= emitted[i].meta.end_line
          /\ emitted[i].meta.end_line <= LineCount(code_text)

\* ---------------------------------------------------------------------------
\* C16: for every chunk chunk_code_item emits, the pieces of a split chunk
\* included, the content hash is the hash of the chunk's own text.
C16_HashOfOwnText ==
    \A i \in DOMAIN emitted : emitted[i].meta.sha256 = new_hash(emitted[i].text)

\* ---------------------------------------------------------------------------
\* extraction and orphan collection of a unit of a supported language are over
OrphansCollected ==
    /\ pc \in {"process", "tail", "emit", "done"}
    /\ code_language \in DOMAIN INNER_CHUNKERS_BY_LANG
    /\ strip(code_text) # <<>>

Offsets == 0..(Len(code_text) - 1)

\* the function and class chunks whose recorded ranges hold offset x
UsedBy(x) ==
    {i \in DOMAIN all_chunks :
        \E k \in DOMAIN all_chunks[i][2] : InRange(all_chunks[i][2][k], x)}

\* the gaps of the tracker that hold offset x
GapsWith(x) ==
    {k \in DOMAIN find_gaps(used_ranges, Len(code_text)) :
        InRange(find_gaps(used_ranges, Len(code_text))[k], x)}

\* offset x is in a range the tracker holds
RecordedUsed(x) == \E k \in DOMAIN used_ranges : InRange(used_ranges[k], x)

\* C17: after extraction and orphan collection every offset of the source is either in the ranges recorded
\* for exactly one function or class chunk or in exactly one gap, and no
\* offset is recorded as used without belonging to a chunk.
C17_EveryOffsetAccountedOnce ==
    OrphansCollected
    => \A x \in Offsets :
          /\ \/ Cardinality(UsedBy(x)) = 1 /\ GapsWith(x) = {}
             \/ Cardinality(UsedBy(x)) = 0 /\ Cardinality(GapsWith(x)) = 1
          /\ (RecordedUsed(x) => UsedBy(x) # {})

\* ---------------------------------------------------------------------------
\* extraction found no collectable function and no method-less class
NoNodeChunks == \A i \in DOMAIN Extracted : ~IsNodeChunk(Extracted[i])

Squeeze(text) == SelectSeq(text, LAMBDA c : c \notin Whitespace)

\* the source text without the offsets the tracker holds as used
UnmarkedText ==
    LET kept == Ascending({x + 1 : x \in {y \in Offsets : ~RecordedUsed(y)}})
    IN  [i \in DOMAIN kept |-> code_text[kept[i]]]

Covered(R) == {x \in 0..MaxByte : \E i \in DOMAIN R : InRange(R[i], x)}

\* C19: merge_ranges returns a list sorted by start in which every range
\* starts strictly after the end of the one before it, and the offsets the
\* result covers are the offsets the used ranges cover.
C19_MergedSortedApartSameCover ==
    call = <<"merge_ranges">>
    => /\ \A i \in 1..(Len(ret) - 1) :
             /\ ret[i][1] < ret[i + 1][1]
             /\ ret[i][2] < ret[i + 1][1]
       /\ \A i \in DOMAIN ret : ret[i][1] <= ret[i][2]
       /\ Covered(ret) = Covered(used_ranges)

\* merge_ranges has folded a range that starts where another ends and kept
\* a third range apart
C19_Witness ==
    /\ call = <<"merge_ranges">>
    /\ Len(used_ranges) = 3
    /\ Len(ret) = 2
    /\ \E i, j \in DOMAIN used_ranges :
          /\ i # j
          /\ used_ranges[i][1] < used_ranges[i][2]
          /\ used_ranges[j][1] < used_ranges[j][2]
          /\ used_ranges[i][2] = used_ranges[j][1]

\* ---------------------------------------------------------------------------
\* the step of _split_function_chunk that yields the pieces of all_chunks[idx]
C20_EmitStep ==
    LET original == all_chunks[idx][1]
        pieces == YieldFrom(yielded, yielded')
    IN  /\ Len(pieces) >= 1
        /\ \A i \in DOMAIN pieces :
              /\ pieces[i].meta.part_name =
                    IF Len(pieces) > 1
                    THEN [name |-> original.meta.part_name.name, part |-> i]
                    ELSE original.meta.part_name
              /\ [pieces[i].meta EXCEPT !.part_name = original.meta.part_name]
                    = original.meta

\* C20: in the function split the part_name of a piece is the original
\* part_name suffixed with _part_{n}, n the 1-based position of the piece
\* among the emitted pieces, exactly when more than one piece is emitted; a
\* single piece keeps the original part_name; every other field of the
\* metadata of each piece is that of the original chunk.
C20_PartNameSuffixedWhenSeveralPieces ==
    [][pc = "emit" => C20_EmitStep]_vars

\* the function split has yielded three pieces: the last three chunks
\* yielded are numbered 1, 2, 3 and the chunk is done with
C20_Witness ==
    /\ pc = "process"
    /\ Len(yielded) >= 3
    /\ yielded[Len(yielded)][1].meta.part_name.part = 3
    /\ yielded[Len(yielded) - 1][1].meta.part_name.part = 2
    /\ yielded[Len(yielded) - 2][1].meta.part_name.part = 1
    /\ IsFunctionKind(yielded[Len(yielded)][1])

\* ---------------------------------------------------------------------------
\* the step of process_chunks that hands all_chunks[idx] to _split_generic_chunk
GenericStep ==
    /\ pc = "process"
    /\ idx \in DOMAIN all_chunks
    /\ IsOversized(CurrentChunk)
    /\ ~IsFunctionKind(CurrentChunk)

\* C21 as stated: every block the generic split emits for an oversized CLASS,
\* PREAMBLE or CODE_BLOCK chunk has a token count <= max_tokens, whatever the
\* token counts of the lines.
C21_GenericBlocksWithinMaxTokens ==
    [][GenericStep =>
          \A i \in DOMAIN YieldFrom(yielded, yielded') :
             count_tokens(YieldFrom(yielded, yielded')[i].text) <= max_tokens]_vars

\* the consecutive blocks the lines are cut into at the line numbers in cuts
\* (a cut c separates line c from line c + 1), each joined by line breaks
BlocksAt(lines, cuts) ==
    [k \in 1..(Cardinality(cuts) + 1) |->
        LET first == IF k = 1 THEN 1
                     ELSE CHOOSE c \in cuts : Cardinality({d \in cuts : d < c}) = k - 2
            last == IF k = Cardinality(cuts) + 1 THEN Len(lines)
                    ELSE CHOOSE c \in cuts : Cardinality({d \in cuts : d < c}) = k - 1
        IN  join(<<"\n">>, SubSeq(lines, IF k = 1 THEN 1 ELSE first + 1, last))]

\* the texts of a sequence of chunks
TextsOf(chunk_list) == [i \in DOMAIN chunk_list |-> chunk_list[i].text]

\* the lines of the texts, one text after the other
RECURSIVE LinesOf(_)
LinesOf(texts) ==
    IF texts = <<>> THEN <<>> ELSE split(Head(texts)) \o LinesOf(Tail(texts))

\* the sum of the token counts of lines first..last
RECURSIVE LineTokensSum(_, _, _)
LineTokensSum(lines, first, last) ==
    IF first > last THEN 0
    ELSE count_tokens(lines[first]) + LineTokensSum(lines, first + 1, last)

\* the first line of the block line i is in, under the cuts
BlockStart(cuts, i) ==
    IF \E c \in cuts : c < i
    THEN 1 + CHOOSE c \in cuts : c < i /\ \A d \in cuts : d < i => d <= c
    ELSE 1

\* the cuts of the generic split: a block ends with line c exactly when line
\* c + 1 does not fit, by per-line counts, after the lines the block holds
IsGreedyCut(lines, cuts) ==
    \A c \in 1..(Len(lines) - 1) :
       c \in cuts <=>
          LineTokensSum(lines, BlockStart(cuts, c), c) + count_tokens(lines[c + 1]) > max_tokens

\* the pieces are the blocks of the lines of the chunk that count at least
\* min_chunk_size tokens, in order and numbered from 1
PiecesAreKeptBlocks(original, pieces) ==
    \E cuts \in SUBSET (1..(Len(split(original.text)) - 1)) :
       /\ IsGreedyCut(split(original.text), cuts)
       /\ TextsOf(pieces) =
             SelectSeq(BlocksAt(split(original.text), cuts),
                       LAMBDA b : count_tokens(b) >= min_chunk_size)
       /\ \A i \in DOMAIN pieces :
             pieces[i].meta = [original.meta EXCEPT !.part_name.part = i]

\* C22 (amended): in the generic split the lines are cut into consecutive
\* blocks, a block is emitted if and only if its own token count is at least
\* min_chunk_size, and every block below it is dropped, the trailing one or
\* one before it: the emitted pieces, in order, are the kept blocks, no line
\* of a kept block lost, duplicated or reordered.
C22_PiecesAreTheBlocksOfMinSize ==
    [][GenericStep =>
          PiecesAreKeptBlocks(CurrentChunk, YieldFrom(yielded, yielded'))]_vars

\* C22 as stated: moreover the only block that can be dropped is the trailing
\* one, so the lines of the emitted pieces are a prefix of the lines of the chunk.
C22_Original ==
    [][GenericStep =>
          /\ PiecesAreKeptBlocks(CurrentChunk, YieldFrom(yielded, yielded'))
          /\ IsPrefix(LinesOf(TextsOf(YieldFrom(yielded, yielded'))),
                      split(CurrentChunk.text))]_vars

\* the generic split has dropped a block before the last one and emitted a
\* later block: what it yielded does not start with the first line of the chunk
C22_Witness ==
    /\ pc = "process"
    /\ idx = 2
    /\ ~IsFunctionKind(all_chunks[1][1])
    /\ IsOversized(all_chunks[1][1])
    /\ yielded # <<>>
    /\ ~IsPrefix(LinesOf(TextsOf(YieldFrom(<<>>, yielded))), split(all_chunks[1][1].text))

\* ---------------------------------------------------------------------------
\* text without the leading string head and the trailing string foot, where it has them
Unwrap(text, head, foot) ==
    LET t == IF IsPrefix(head, text) THEN SubSeq(text, Len(head) + 1, Len(text)) ELSE text
    IN  IF Len(foot) <= Len(t) /\ SubSeq(t, Len(t) - Len(foot) + 1, Len(t)) = foot
        THEN SubSeq(t, 1, Len(t) - Len(foot))
        ELSE t

\* the lines with a non-blank character, each without its surrounding whitespace
StrippedLines(lines) ==
    LET stripped == [i \in DOMAIN lines |-> strip(lines[i])]
    IN  SelectSeq(stripped, LAMBDA l : l # <<>>)

\* C30 as stated: the function split loses no body content; the body lines of
\* the oversized chunk (the lines after the signature line, minus one trailing
\* closing-brace line) appear unchanged, exactly once and in the original
\* order across the pieces about to be emitted, each on a line of its own,
\* also after the merge of an undersized final piece. Read leniently: blank
\* lines and indentation are not compared, and the signature line with the
\* block-opening token and the block-closing token are taken off each piece.
C30_FunctionSplitKeepsBodyLines ==
    pc = "emit" =>
        StrippedLines(LinesOf([i \in DOMAIN chunks |->
                                  Unwrap(chunks[i], signature_line \o chunk_prefix,
                                         chunk_suffix)]))
            = StrippedLines(BodyLines(split(CurrentChunk.text)))

\* ---------------------------------------------------------------------------
\* the threshold a chunker is to run with: what the strategy was given, the
\* default when it was given none
Configured(given, default) == IF given = <<>> THEN default ELSE given[1]

\* C26 as stated: for each of Python, TypeScript, JavaScript, C and Java the
\* size processor of a chunk_code_item call runs with the max_tokens and the
\* min_chunk_size the strategy was constructed with, and with 5000 and 300
\* only when the caller gave none.
C26_ThresholdsAsConfigured ==
    \A i \in DOMAIN invocations :
       invocations[i].size_processor # <<>> =>
          /\ invocations[i].size_processor[1].max_tokens
                = Configured(chunker_kwargs.max_tokens, DefaultMaxTokens)
          /\ invocations[i].size_processor[1].min_chunk_size
                = Configured(chunker_kwargs.min_chunk_size, DefaultMinChunkSize)

\* C27 as stated: chunk_code_item calls run in any interleaving on one
\* strategy share no mutable state that affects results: the range tracker
\* of each call is its own, each call runs with the chunker configuration it
\* has when run alone, and for no language more than one chunker instance is
\* ever created.
C27_NoSharedStateOneChunkerPerLanguage ==
    /\ \A i \in DOMAIN invocations :
          invocations[i].size_processor # <<>> =>
             /\ invocations[i].range_tracker = << <<>> >>
             /\ invocations[i].chunker =
                   <<NewChunker(INNER_CHUNKERS_BY_LANG[invocations[i].language],
                                chunker_kwargs)>>
    /\ \A l \in DOMAIN created : created[l] <= 1

\* ---------------------------------------------------------------------------
\* the function-type nodes of the tree
FunctionNodes ==
    {n \in DOMAIN tree : tree[n].type \in PythonFunctionChunker.function_definition_types}

\* node n lies below a function-type node
InsideFunction(n) == \E m \in FunctionNodes : m # n /\ IsWithin(n, m)

\* function discovery has returned node n: the extraction has built the
\* FUNCTION chunk whose first used range is the range of n
CollectedAsFunction(n) ==
    \E i \in DOMAIN all_chunks :
       /\ all_chunks[i][1].meta.chunk_type = FUNCTION
       /\ all_chunks[i][2] # <<>>
       /\ all_chunks[i][2][1] = <<tree[n].start_byte, tree[n].end_byte>>

\* the class in whose body function n is defined, decorated or not; 0 for none
EnclosingClass(n) ==
    IF /\ tree[DefinitionOf(n)].parent # 0
       /\ tree[tree[DefinitionOf(n)].parent].parent # 0
       /\ tree[tree[tree[DefinitionOf(n)].parent].parent].type
             \in PythonFunctionChunker.class_definition_types
    THEN tree[tree[DefinitionOf(n)].parent].parent
    ELSE 0

\* function discovery has run on the tree of a unit the Python chunker takes
FunctionsDiscovered == pc = "constructors"

\* C23 as stated: a function-type node that is not inside another
\* function-type node is collected if and only if the language has no
\* constructor concept, or its name differs from the constructor name, or it
\* is the constructor and no other function, decorated or not, is defined in
\* its enclosing class.
C23_CollectedUnlessConstructorWithSiblings ==
    FunctionsDiscovered =>
       \A n \in FunctionNodes :
          ~InsideFunction(n) =>
             (CollectedAsFunction(n) <=>
                \/ PythonFunctionChunker.constructor_name = <<>>
                \/ get_function_name(n) # PythonFunctionChunker.constructor_name
                \/ /\ get_function_name(n) = PythonFunctionChunker.constructor_name
                   /\ EnclosingClass(n) # 0
                   /\ FunctionsOfClass(EnclosingClass(n)) = {n})

\* ---------------------------------------------------------------------------
\* the outermost function-type node node n lies in (n itself when in none)
OutermostFunction(n) ==
    CHOOSE m \in FunctionNodes : IsWithin(n, m) /\ ~InsideFunction(m)

\* C24: no node function discovery returns lies below another function-type
\* node: a function definition nested at any depth inside a function gets no
\* chunk of its own, and when its outermost enclosing function is collected
\* its byte range lies inside the range of that function, the first used
\* range of that function's chunk.
C24_NestedFunctionsStayInOuterChunk ==
    FunctionsDiscovered =>
       \A n \in FunctionNodes :
          InsideFunction(n) =>
             /\ ~CollectedAsFunction(n)
             /\ \A i \in DOMAIN all_chunks :
                   (all_chunks[i][2][1] = <<tree[OutermostFunction(n)].start_byte,
                                           tree[OutermostFunction(n)].end_byte>>)
                   => /\ all_chunks[i][2][1][1] <= tree[n].start_byte
                      /\ tree[n].end_byte <= all_chunks[i][2][1][2]
                      /\ Contains(all_chunks[i][1].text, NodeText(n))

\* function discovery has run on a unit with a function inside a function,
\* and the chunk of the outer function has been built
C24_Witness ==
    /\ FunctionsDiscovered
    /\ \E n \in FunctionNodes :
          /\ InsideFunction(n)
          /\ CollectedAsFunction(OutermostFunction(n))

\* ---------------------------------------------------------------------------
\* the gaps between the used ranges of the tracker: the longest stretches
\* <<a, b>> of offsets a..b-1 of the source none of which is recorded as used
UnusedStretches ==
    {g \in (0..Len(code_text)) \X (0..Len(code_text)) :
        /\ g[1] < g[2]
        /\ \A x \in g[1]..(g[2] - 1) : ~RecordedUsed(x)
        /\ (g[1] = 0 \/ RecordedUsed(g[1] - 1))
        /\ (g[2] = Len(code_text) \/ RecordedUsed(g[2]))}

\* those with a non-blank text, in ascending offset order
NonEmptyGaps ==
    LET starts == Ascending({g[1] : g \in {h \in UnusedStretches :
                      strip(SubSeq(code_text, h[1] + 1, h[2])) # <<>>}})
    IN  [i \in DOMAIN starts |-> CHOOSE g \in UnusedStretches : g[1] = starts[i]]

\* the 1-based number of the line the character at offset x is on
LineAt(x) == CountNewlines(SubSeq(code_text, 1, x)) + 1

\* the PREAMBLE chunks orphan collection has built
Preambles == SelectSeq(Extracted, LAMBDA chunk : chunk.meta.chunk_type = PREAMBLE)

ClassNodes ==
    {c \in DOMAIN tree : tree[c].type \in PythonFunctionChunker.class_definition_types}

\* C28 as stated: no class yields both kinds of chunk; for every class node
\* for which empty-class discovery has built a CLASS chunk, function
\* discovery has built no FUNCTION chunk for a function defined in the class,
\* directly or wrapped in a decorator node.
C28_NoClassChunkWithFunctionChunks ==
    OrphansCollected =>
       \A c \in ClassNodes :
          ClassPairsOf(c) # <<>> =>
             \A n \in FunctionsOfClass(c) : ~CollectedAsFunction(n)

\* ---------------------------------------------------------------------------
\* the import statements of the tree
ImportNodes ==
    {n \in DOMAIN tree : tree[n].type \in
        {"import_statement", "import_from_statement", "future_import_statement"}}

\* C29 as stated: every import statement whose byte range a function or
\* class chunk records as used has its text inlined in the text of that
\* chunk, so no import withheld from the PREAMBLE disappears from the output.
C29_UsedImportsAreInlined ==
    OrphansCollected =>
       \A i \in DOMAIN all_chunks :
          IsNodeChunk(all_chunks[i][1]) =>
             \A n \in ImportNodes :
                (\E k \in DOMAIN all_chunks[i][2] :
                    all_chunks[i][2][k] = <<tree[n].start_byte, tree[n].end_byte>>)
                => Contains(all_chunks[i][1].text, NodeText(n))

====
